---- MODULE Spec2Model ----
(***************************************************************************)
(* The Thrive back office: the orders, the ingredients and the users       *)
(* controller (each in its TypeORM and its raw-SQL version), the           *)
(* customers, menu, locations and settings controllers, the identity gate  *)
(* of the routes, and the schema's foreign keys, unique constraints and    *)
(* triggers.                                                               *)
(*                                                                         *)
(* Modelling conventions                                                   *)
(*  - a UUID is a fresh value: order ids are drawn from a counter, so the   *)
(*    id of an order is also its rank in creation order (created_at);      *)
(*  - an optional number (a JSON field that may be absent, a nullable      *)
(*    column) is the empty tuple << >> when absent and <<v>> otherwise;     *)
(*  - an optional identifier is Undefined, NULL or the identifier;         *)
(*  - a request amount is a whole number of half cents (0.005), a stored   *)
(*    DECIMAL(10,2) amount a whole number of cents;                        *)
(*  - a string of digits is a sequence of one-character strings;           *)
(*  - the tables food_types, specifications and cook_types are fixed sets  *)
(*    of ids, no modelled handler writes them;                             *)
(*  - a composition row's ingredient_quantity_id and custom_quantity are   *)
(*    left out: the modelled requests do not set them;                     *)
(*  - a token is the id of the user it was signed for; a user's name and   *)
(*    contact_number and a category's show_* flags are left out;           *)
(*  - a password hash is the password under a tag, so that a hash is       *)
(*    never equal to a password.                                           *)
(***************************************************************************)
EXTENDS Integers, Sequences, FiniteSets, TLC

VARIABLES
    impl,         \* which version of the controllers the routes load
    locations,    \* table locations: the ids of the rows
    customers,    \* table customers: id -> row
    orders,       \* table orders: id -> row
    order_items,  \* table order_items: a set of rows
    nextId,       \* number of order ids generated so far
    now,          \* the clock (CURRENT_TIMESTAMP, new Date())
    response,     \* the last response sent
    deletedIn,    \* history: locations in which an order was ever deleted
    supplied,     \* history: the items array each existing order was created from
    tx,           \* the createOrder requests in flight
    users,        \* table users: id -> row
    nextUser,     \* number of user ids generated so far
    body,         \* what the last response of the users controller carried
    food_categories,  \* table food_categories: id -> row
    nextCategory,     \* number of category ids generated so far
    ingredients,            \* table ingredients: id -> row
    ingredient_quantities,  \* table ingredient_quantities: a set of rows
    nextIngredient,         \* number of ingredient ids generated so far
    itx,                    \* the updateIngredient requests in flight
    menu_items,             \* table menu_items: id -> row
    menu_item_photos,       \* table menu_item_photos: a set of rows
    menu_item_ingredients,  \* table menu_item_ingredients: a set of rows
    nextMenuItem,           \* number of menu item ids generated so far
    displayGiven            \* history: the location and display_id each menu item was created with

ingredientState == <<ingredients, ingredient_quantities, nextIngredient, itx>>
menuState == <<menu_items, menu_item_photos, menu_item_ingredients, nextMenuItem,
               displayGiven>>
userState == <<users, nextUser, body>>
settingsState == <<food_categories, nextCategory>>
catalog == <<userState, settingsState, ingredientState, menuState>>
orderState == <<customers, orders, order_items, nextId, deletedIn, supplied, tx>>

vars == <<impl, locations, customers, orders, order_items, nextId, now,
          response, deletedIn, supplied, tx, catalog>>

-----------------------------------------------------------------------------
(* Bounds *)

MaxOrders == 3
MaxPrepsOrders == 2
MaxStatusOrders == 1
MaxTxOrders == 2
MaxItems == 2
MaxClock == 2
NumRequests == 2
MaxIngredients == 2
MaxFieldIngredients == 1
MaxMenuItems == 2
MaxMenuIngredients == 1
MaxCascadeOrders == 1
MaxUsers == 3
MaxCategories == 2
MaxFrameOrders == 1
NumUpdaters == 2
MaxRaceIngredients == 1

-----------------------------------------------------------------------------
(* Values *)

Undefined == "undefined"
NULL == "null"
None == << >>
Some(v) == <<v>>

Impls == {"typeorm", "pg"}
LocationIds == {"L1", "L2"}
CustomerIds == {"C1", "C2"}
MenuItemIds == {"M1"}
NoMenuItem == "M0"
UserIds == {"U1", "U2"}
FoodTypeIds == {"F1", "F2"}
SpecificationIds == {"S1"}
CookTypeIds == {"K1"}
NoFoodType == "F0"
NoIngredient == "I0"

\* uuid_generate_v4(): the n-th id generated for a table
IngredientNames == <<"I1", "I2", "I3", "I4", "I5">>
MenuItemNames == <<"M1", "M2", "M3", "M4", "M5">>
UserNames == <<"U1", "U2", "U3", "U4", "U5">>
CategoryNames == <<"G1", "G2", "G3", "G4", "G5">>
NoCustomer == "C0"
Requests == 1..NumRequests
Updaters == 1..NumUpdaters

\* the enum types user_role and account_status
userRoles == {"admin", "manager", "staff", "kitchen_staff"}
accountStatuses == {"active", "inactive", "suspended"}

validStatuses == {"received", "preparing", "ready", "delivered", "cancelled"}

RECURSIVE SumOver(_, _)
SumOver(S, f) ==
    IF S = {} THEN 0
    ELSE LET e == CHOOSE e \in S : TRUE IN f[e] + SumOver(S \ {e}, [x \in S \ {e} |-> f[x]])

Abs(n) == IF n < 0 THEN -n ELSE n

-----------------------------------------------------------------------------
(* Order number: `ORD-${String(n).padStart(5, '0')}` *)

Digit(d) == CASE d = 0 -> "0" [] d = 1 -> "1" [] d = 2 -> "2" [] d = 3 -> "3"
              [] d = 4 -> "4" [] d = 5 -> "5" [] d = 6 -> "6" [] d = 7 -> "7"
              [] d = 8 -> "8" [] d = 9 -> "9"

RECURSIVE String(_)
String(n) == IF n < 10 THEN <<Digit(n)>> ELSE String(n \div 10) \o <<Digit(n % 10)>>

RECURSIVE padStart(_, _, _)
padStart(s, width, fill) ==
    IF Len(s) >= width THEN s ELSE padStart(<<fill>> \o s, width, fill)

RECURSIVE parseInt(_)
parseInt(digits) ==
    IF Len(digits) = 0 THEN 0
    ELSE LET last == digits[Len(digits)]
             d == CHOOSE d \in 0..9 : Digit(d) = last
         IN 10 * parseInt(SubSeq(digits, 1, Len(digits) - 1)) + d

OrderNumberWidth == 5

\* variant: the count itself, not the count plus one
OrderNumberOfCount(count) ==
    <<"O", "R", "D", "-">> \o padStart(String(count), OrderNumberWidth, "0")

OrderNumber(count) ==
    <<"O", "R", "D", "-">> \o padStart(String(count + 1), OrderNumberWidth, "0")

-----------------------------------------------------------------------------
(* Amounts *)

\* a destructuring default, `{ x = d } = req.body`
Default(x, d) == IF x = None THEN d ELSE x[1]

\* JavaScript's `x || d` on an optional number: absent and 0 are falsy
Or(x, d) == IF x = None THEN d ELSE IF x[1] = 0 THEN d ELSE x[1]

\* storing a number in a DECIMAL(10,2) column rounds it to cents, half away
\* from zero; h is in half cents
Round2(h) == IF h >= 0 THEN (h + 1) \div 2 ELSE -((1 - h) \div 2)

\* variant: only an absent quantity defaults to 1, a quantity of 0 stays 0
itemTotalKeepsZero(item) == Or(item.unit_price, 0) * Default(item.quantity, 1)

\* `(item.unit_price || 0) * (item.quantity || 1)`, in half cents
itemTotal(item) == Or(item.unit_price, 0) * Or(item.quantity, 1)

RECURSIVE totalPrice(_)
totalPrice(items) ==
    IF Len(items) = 0 THEN 0
    ELSE itemTotal(Head(items)) + totalPrice(Tail(items))

-----------------------------------------------------------------------------
(* Rows *)

\* `x || null` on an optional identifier
OrNull(x) == IF x = Undefined THEN NULL ELSE x

OrderRow(location_id, customer_id, count, items, notes) ==
    [ location_id  |-> location_id,
      customer_id  |-> OrNull(customer_id),
      order_number |-> OrderNumber(count),
      status       |-> "received",
      total_price  |-> Round2(totalPrice(items)),
      notes        |-> OrNull(notes),
      delivered_at |-> None ]

OrderItemRow(order_id, i, item) ==
    [ order_id     |-> order_id,
      idx          |-> i,
      menu_item_id |-> OrNull(item.menu_item_id),
      quantity     |-> Or(item.quantity, 1),
      unit_price   |-> Round2(Or(item.unit_price, 0)),
      total_price  |-> Round2(itemTotal(item)) ]

\* foreign keys of the two tables
OrderFkOk(row) ==
    /\ row.location_id \in locations
    /\ row.customer_id = NULL \/ row.customer_id \in DOMAIN customers

OrderItemFkOk(row) == row.menu_item_id = NULL \/ row.menu_item_id \in DOMAIN menu_items

\* SELECT COUNT(*) FROM orders WHERE location_id = $1
orderCount(tbl, location_id) ==
    Cardinality({o \in DOMAIN tbl : tbl[o].location_id = location_id})

\* variant: a trigger AFTER INSERT only
update_customer_total_preps_on_insert(TG_OP, custs, customer_id) ==
    [c \in DOMAIN custs |->
        IF c = customer_id /\ TG_OP = "INSERT"
        THEN [custs[c] EXCEPT !.total_preps = @ + 1]
        ELSE custs[c]]

\* trigger update_customer_preps_on_order, AFTER INSERT OR DELETE ON orders
update_customer_total_preps(TG_OP, custs, customer_id) ==
    [c \in DOMAIN custs |->
        IF c = customer_id
        THEN [custs[c] EXCEPT !.total_preps =
                 IF TG_OP = "INSERT" THEN @ + 1
                 ELSE IF TG_OP = "DELETE" THEN @ - 1
                 ELSE @]
        ELSE custs[c]]

InsertOrder(tbl, id, row) ==
    [o \in DOMAIN tbl \cup {id} |-> IF o = id THEN row ELSE tbl[o]]

\* INSERT of a row under a fresh primary key, in any table
InsertRow(tbl, id, row) ==
    [k \in DOMAIN tbl \cup {id} |-> IF k = id THEN row ELSE tbl[k]]

ItemRows(order_id, items) ==
    {OrderItemRow(order_id, i, items[i]) : i \in 1..Len(items)}

\* a request slot with no createOrder in flight
IdleTx == [pc |-> "idle", location_id |-> NULL, customer_id |-> NULL, notes |-> NULL,
           items |-> << >>, count |-> 0, id |-> 0, n |-> 0]
NoTx == [r \in Requests |-> IdleTx]

\* a request slot with no updateIngredient in flight
IdleItx == [pc |-> "idle", id |-> NULL, name |-> NULL, row |-> None, quantities |-> << >>,
            replaces |-> FALSE, locked |-> FALSE, targets |-> {}, deleted |-> {}, n |-> 0]
NoItx == [r \in Updaters |-> IdleItx]

\* the orders row a transaction has inserted and not yet committed holds, through
\* the trigger's UPDATE, the row lock of its customer until the transaction ends
Locked(c) ==
    \E r \in Requests : tx[r].pc \in {"items", "responded"} /\ tx[r].customer_id = c

-----------------------------------------------------------------------------
(* Rows of the ingredients and their quantity tiers *)

\* the ingredients row createIngredient inserts; is_active takes its default
IngredientRow(food_type_id, specification_id, cook_type_id, name, description) ==
    [ food_type_id     |-> food_type_id,
      specification_id |-> OrNull(specification_id),
      cook_type_id     |-> OrNull(cook_type_id),
      name             |-> OrNull(name),
      description      |-> OrNull(description),
      is_active        |-> TRUE ]

\* foreign keys of ingredients
IngredientFkOk(row) ==
    /\ row.food_type_id \in FoodTypeIds
    /\ row.specification_id = NULL \/ row.specification_id \in SpecificationIds
    /\ row.cook_type_id = NULL \/ row.cook_type_id \in CookTypeIds

\* the answer to a statement on ingredients the database refuses, 0 if it
\* accepts the row: food_type_id is NOT NULL (no mapping, 500), a foreign key
\* names no row (23503, 400)
IngredientError(row) ==
    IF row.food_type_id = NULL THEN 500
    ELSE IF ~IngredientFkOk(row) THEN 400
    ELSE 0

\* JavaScript's `x || null` on an optional number
OrNone(x) == IF x = None THEN None ELSE IF x[1] = 0 THEN None ELSE x

\* the ingredient_quantities row inserted for the i-th tier of a request;
\* price in half cents in the request, in cents in the row
TierRow(ingredient_id, i, qty) ==
    [ ingredient_id  |-> ingredient_id,
      seq            |-> i,
      quantity_value |-> qty.quantity_value,
      quantity_grams |-> OrNone(qty.quantity_grams),
      price          |-> Round2(Or(qty.price, 0)),
      is_available   |-> qty.is_available # Some(FALSE) ]

TierRows(ingredient_id, quantities) ==
    {TierRow(ingredient_id, i, quantities[i]) : i \in 1..Len(quantities)}

\* the i-th INSERT of a request fails: quantity_value is NOT NULL, and
\* UNIQUE(ingredient_id, quantity_value) against the tiers inserted before it
\* (the ingredient has no other tier when the first INSERT runs)
TierRefused(quantities, i) ==
    \/ quantities[i].quantity_value \in {Undefined, NULL}
    \/ \E j \in 1..(i - 1) : quantities[j].quantity_value = quantities[i].quantity_value

\* variant: ingredient_quantities without its UNIQUE constraint
TierErrorNotNullOnly(quantities) ==
    IF \E i \in 1..Len(quantities) : quantities[i].quantity_value \in {Undefined, NULL}
    THEN 500 ELSE 0

\* the answer to the first INSERT of a tier that fails (23505 is answered 409,
\* a NOT NULL violation 500), 0 if all succeed
TierError(quantities) ==
    IF \A i \in 1..Len(quantities) : ~TierRefused(quantities, i) THEN 0
    ELSE LET i == CHOOSE k \in 1..Len(quantities) :
                      /\ TierRefused(quantities, k)
                      /\ \A j \in 1..(k - 1) : ~TierRefused(quantities, j)
         IN IF quantities[i].quantity_value \in {Undefined, NULL} THEN 500 ELSE 409

\* variant: the supplied tiers are added to those the ingredient has
replaceQuantitiesKeepsOld(tbl, id, body_quantities) ==
    IF body_quantities = None THEN tbl
    ELSE tbl \cup TierRows(id, body_quantities[1])

\* `if (quantities && Array.isArray(quantities))`: DELETE the ingredient's
\* tiers and INSERT the supplied ones; an omitted array leaves the tiers
replaceQuantities(tbl, id, body_quantities) ==
    IF body_quantities = None THEN tbl
    ELSE {t \in tbl : t.ingredient_id # id} \cup TierRows(id, body_quantities[1])

\* the value updateIngredient writes to specification_id and cook_type_id
\*   typeorm: `if (x !== undefined) ingredient.x = x`;  pg: `x = $n`, an
\*   undefined parameter sent as NULL
AssignedNullable(old, x) ==
    IF x # Undefined THEN x
    ELSE IF impl = "pg" THEN NULL
    ELSE old

\* the value updateIngredient writes to is_active, an optional boolean
AssignedFlag(old, x) == IF x = None THEN old ELSE x[1]

-----------------------------------------------------------------------------
(* Rows of the menu items, their photos and their composition *)

menuItemStatuses == {"draft", "active"}

DisplayIdWidth == 3

Max(S) == CHOOSE n \in S : \A k \in S : k <= n

\* trigger generate_menu_item_display_id, BEFORE INSERT ON menu_items
generate_menu_display_id(tbl, location_id) ==
    LET nums == {parseInt(SubSeq(tbl[m].display_id, 2, Len(tbl[m].display_id))) :
                    m \in {k \in DOMAIN tbl : tbl[k].location_id = location_id}}
        next_num == (IF nums = {} THEN 0 ELSE Max(nums)) + 1
    IN <<"#">> \o padStart(String(next_num), DisplayIdWidth, "0")

\* the menu_items row createMenuItem inserts into table tbl; price in half
\* cents in the request, in cents in the row
MenuItemRow(tbl, location_id, name, price, status) ==
    [ location_id |-> location_id,
      display_id  |-> generate_menu_display_id(tbl, location_id),
      name        |-> name,
      price       |-> Round2(Or(price, 0)),
      status      |-> status ]

\* the answer to a statement on menu_items the database refuses, 0 if it
\* accepts the row: status is a menu_item_status (22P02, 400), name is NOT
\* NULL (500), location_id names a location (23503, 400)
MenuItemError(row) ==
    IF row.status \notin menuItemStatuses THEN 400
    ELSE IF row.name = NULL THEN 500
    ELSE IF row.location_id \notin locations THEN 400
    ELSE 0

\* variant: every photo gets the default display_order
PhotoRowDefaultOrder(menu_item_id, i, photos) ==
    [ menu_item_id  |-> menu_item_id,
      photo_url     |-> photos[i + 1],
      display_order |-> 0 ]

\* the menu_item_photos row for `photos[i]`, i counted from 0 as the loop does
PhotoRow(menu_item_id, i, photos) ==
    [ menu_item_id  |-> menu_item_id,
      photo_url     |-> photos[i + 1],
      display_order |-> i ]

PhotoRows(menu_item_id, photos) ==
    {PhotoRow(menu_item_id, i, photos) : i \in 0..(Len(photos) - 1)}

\* photo_url is NOT NULL
PhotoError(photos) ==
    IF \E i \in 1..Len(photos) : photos[i] \in {Undefined, NULL} THEN 500 ELSE 0

\* `if (photos !== undefined)`: DELETE the item's photos and INSERT the
\* supplied ones; omitted photos leave the table
replacePhotos(tbl, id, body_photos) ==
    IF body_photos = None THEN tbl
    ELSE {ph \in tbl : ph.menu_item_id # id} \cup PhotoRows(id, body_photos[1])

\* the menu_item_ingredients row inserted for the i-th entry of a request
CompositionRow(menu_item_id, i, ing) ==
    [ menu_item_id  |-> menu_item_id,
      seq           |-> i,
      ingredient_id |-> ing.ingredient_id ]

CompositionRows(menu_item_id, ings) ==
    {CompositionRow(menu_item_id, i, ings[i]) : i \in 1..Len(ings)}

\* variant: menu_item_ingredients without UNIQUE(menu_item_id, ingredient_id)
CompositionRefusedNoUnique(ings, i) ==
    IF ings[i].ingredient_id \in {Undefined, NULL} THEN 500
    ELSE IF ings[i].ingredient_id \notin DOMAIN ingredients THEN 400
    ELSE 0

\* the answer to the i-th INSERT of a composition row if it fails, else 0:
\* ingredient_id is NOT NULL (500), UNIQUE(menu_item_id, ingredient_id)
\* against the rows inserted before it (23505, 409; the item has no other
\* row when the first INSERT runs), ingredient_id names an ingredient
\* (23503, 400)
CompositionRefused(ings, i) ==
    IF ings[i].ingredient_id \in {Undefined, NULL} THEN 500
    ELSE IF \E j \in 1..(i - 1) : ings[j].ingredient_id = ings[i].ingredient_id THEN 409
    ELSE IF ings[i].ingredient_id \notin DOMAIN ingredients THEN 400
    ELSE 0

\* the answer to the first INSERT of a composition row that fails, else 0
CompositionError(ings) ==
    IF \A i \in 1..Len(ings) : CompositionRefused(ings, i) = 0 THEN 0
    ELSE LET i == CHOOSE k \in 1..Len(ings) :
                      /\ CompositionRefused(ings, k) # 0
                      /\ \A j \in 1..(k - 1) : CompositionRefused(ings, j) = 0
         IN CompositionRefused(ings, i)

\* `if (ingredients !== undefined)`: DELETE the item's composition and INSERT
\* the supplied one; omitted ingredients leave the table
replaceComposition(tbl, id, body_ingredients) ==
    IF body_ingredients = None THEN tbl
    ELSE {c \in tbl : c.menu_item_id # id} \cup CompositionRows(id, body_ingredients[1])

\* the answer to the first statement of a menu item's write that fails: the
\* row, then the photos, then the composition; 0 if all succeed
MenuWriteError(row, photos, ings) ==
    IF MenuItemError(row) # 0 THEN MenuItemError(row)
    ELSE IF PhotoError(photos) # 0 THEN PhotoError(photos)
    ELSE CompositionError(ings)

\* variant: toggling leads to 'active' from every status
toggledToActive(status) == "active"

\* `menuItem.status === 'draft' ? 'active' : 'draft'`
toggled(status) == IF status = "draft" THEN "active" ELSE "draft"

-----------------------------------------------------------------------------
(* User rows, passwords and the response body of the users controller *)

\* bcrypt.hash(password, salt): the hash is not the password, and two
\* passwords have two hashes
hash(password) == <<"$2b$10$", password>>

\* bcrypt.compare(password, password_hash)
compare(password, password_hash) == password_hash = hash(password)

UserRow(location_id, email, password, role, account_status) ==
    [location_id |-> location_id,
     email |-> email,
     password_hash |-> hash(password),
     role |-> role,
     account_status |-> account_status]

\* the JSON body: `error` of an error response, `data.token` of a login
Body(message, token) == [message |-> message, token |-> token]
NoBody == Body(NULL, NULL)

\* the users with this email
byEmail(email) == {u \in DOMAIN users : users[u].email = email}

\* UNIQUE(location_id, email)
EmailTaken(location_id, email) ==
    \E u \in DOMAIN users : users[u].location_id = location_id /\ users[u].email = email

-----------------------------------------------------------------------------
(* The handlers; createOrder here is one whole transaction, run without
   another request in between *)

\* the schema with its two locations and two customers registered, no order yet;
\* either controller may be the one the routes load
Init ==
    /\ impl \in Impls
    /\ locations = LocationIds
    /\ customers = [c \in CustomerIds |->
                       [location_id |-> IF c = "C1" THEN "L1" ELSE "L2",
                        total_preps |-> 0]]
    /\ orders = << >>
    /\ order_items = {}
    /\ nextId = 0
    /\ now = 0
    /\ response = 0
    /\ deletedIn = {}
    /\ supplied = << >>
    /\ tx = NoTx
    /\ users = [u \in UserIds |->
                   IF u = "U1"
                   THEN UserRow("L1", "admin@thrive.lk", "secret", "admin", "active")
                   ELSE UserRow("L2", "staff@thrive.lk", "secret", "staff", "active")]
    /\ nextUser = 2
    /\ body = NoBody
    /\ food_categories = << >>
    /\ nextCategory = 0
    /\ ingredients = << >>
    /\ ingredient_quantities = {}
    /\ nextIngredient = 0
    /\ itx = NoItx
    /\ menu_items = [m \in MenuItemIds |-> MenuItemRow(<< >>, "L1", "bowl", Some(200), "active")]
    /\ menu_item_photos = {}
    /\ menu_item_ingredients = {}
    /\ nextMenuItem = 1
    /\ displayGiven = [m \in MenuItemIds |-> <<"L1", menu_items[m].display_id>>]

\* variant: only the location is checked
InvalidLocationOnly(location_id, items) == location_id = Undefined

\* the two checks createOrder makes before it opens its transaction
Invalid(location_id, items) == location_id = Undefined \/ Len(items) = 0

\* variant: a status other than 'delivered' clears delivered_at
deliveredAtOrCleared(old, status) == IF status = "delivered" THEN Some(now) ELSE None

\* `if (status === 'delivered') order.delivered_at = new Date()`
deliveredAt(old, status) == IF status = "delivered" THEN Some(now) ELSE old

Reject(code) ==
    /\ response' = code
    /\ UNCHANGED <<catalog, impl, locations, customers, orders, order_items, nextId, now,
                   deletedIn, supplied, tx>>

\* POST /api/orders
createOrder(location_id, customer_id, notes, body_items) ==
    /\ LET items == Default(body_items, << >>) IN
       IF Invalid(location_id, items) THEN Reject(400)
       ELSE LET row == OrderRow(location_id, customer_id,
                                orderCount(orders, location_id), items, notes)
                id == nextId + 1
                rows == ItemRows(id, items)
            IN IF OrderFkOk(row) /\ \A it \in rows : OrderItemFkOk(it)
               THEN /\ nextId < MaxOrders
                    /\ nextId' = id
                    /\ orders' = InsertOrder(orders, id, row)
                    /\ customers' = update_customer_total_preps("INSERT", customers, row.customer_id)
                    /\ order_items' = order_items \cup rows
                    /\ supplied' = InsertOrder(supplied, id, items)
                    /\ response' = 201
                    /\ UNCHANGED <<catalog, impl, locations, now, deletedIn, tx>>
               ELSE Reject(400)

\* variant: an order that is delivered or cancelled takes no other status
updateOrderStatusFromOpen(id, status) ==
    /\ IF status = Undefined THEN Reject(400)
       ELSE IF status \notin validStatuses THEN Reject(400)
       ELSE IF id \notin DOMAIN orders THEN Reject(404)
       ELSE IF orders[id].status \in {"delivered", "cancelled"} THEN Reject(400)
       ELSE /\ orders' = [orders EXCEPT ![id] =
                            [@ EXCEPT !.status = status,
                                      !.delivered_at = deliveredAt(@, status)]]
            /\ response' = 200
            /\ UNCHANGED <<catalog, impl, locations, customers, order_items, nextId, now,
                           deletedIn, supplied, tx>>

\* PATCH /api/orders/:id/status
updateOrderStatus(id, status) ==
    /\ IF status = Undefined THEN Reject(400)
       ELSE IF status \notin validStatuses THEN Reject(400)
       ELSE IF id \notin DOMAIN orders THEN Reject(404)
       ELSE /\ orders' = [orders EXCEPT ![id] =
                            [@ EXCEPT !.status = status,
                                      !.delivered_at = deliveredAt(@, status)]]
            /\ response' = 200
            /\ UNCHANGED <<catalog, impl, locations, customers, order_items, nextId, now,
                           deletedIn, supplied, tx>>

\* the value updateOrder writes to a column for a body field
\*   typeorm: `if (x !== undefined) order.x = x`;  pg: `x = COALESCE($n, x)`
Assigned(old, x) ==
    IF x = Undefined THEN old
    ELSE IF x = NULL /\ impl = "pg" THEN old
    ELSE x

\* variant: an order given to a customer moves to the customer's location
updateOrderRelocates(id, customer_id, notes, status) ==
    /\ IF id \notin DOMAIN orders THEN Reject(404)
       ELSE LET row == [orders[id] EXCEPT
                           !.customer_id = Assigned(@, customer_id),
                           !.notes = Assigned(@, notes),
                           !.status = Assigned(@, status)]
                moved == IF row.customer_id \in DOMAIN customers
                         THEN [row EXCEPT !.location_id = customers[row.customer_id].location_id]
                         ELSE row
            IN IF OrderFkOk(row) /\ row.status \in validStatuses
               THEN /\ orders' = [orders EXCEPT ![id] = moved]
                    /\ response' = 200
                    /\ UNCHANGED <<catalog, impl, locations, customers, order_items, nextId,
                                   now, deletedIn, supplied, tx>>
               ELSE Reject(400)

\* PUT /api/orders/:id
updateOrder(id, customer_id, notes, status) ==
    /\ IF id \notin DOMAIN orders THEN Reject(404)
       ELSE LET row == [orders[id] EXCEPT
                           !.customer_id = Assigned(@, customer_id),
                           !.notes = Assigned(@, notes),
                           !.status = Assigned(@, status)]
            IN IF OrderFkOk(row) /\ row.status \in validStatuses
               THEN /\ orders' = [orders EXCEPT ![id] = row]
                    /\ response' = 200
                    /\ UNCHANGED <<catalog, impl, locations, customers, order_items, nextId,
                                   now, deletedIn, supplied, tx>>
               ELSE Reject(400)

\* variant: the order is deleted, its items stay
deleteOrderKeepsItems(id) ==
    /\ IF id \notin DOMAIN orders THEN Reject(404)
       ELSE /\ ~Locked(orders[id].customer_id)
            /\ orders' = [o \in DOMAIN orders \ {id} |-> orders[o]]
            /\ customers' = update_customer_total_preps("DELETE", customers,
                                                        orders[id].customer_id)
            /\ deletedIn' = deletedIn \cup {orders[id].location_id}
            /\ supplied' = [o \in DOMAIN supplied \ {id} |-> supplied[o]]
            /\ response' = 200
            /\ UNCHANGED <<catalog, impl, locations, nextId, now, tx, order_items>>

\* DELETE /api/orders/:id
deleteOrder(id) ==
    /\ IF id \notin DOMAIN orders THEN Reject(404)
       ELSE /\ ~Locked(orders[id].customer_id)
            /\ orders' = [o \in DOMAIN orders \ {id} |-> orders[o]]
            /\ order_items' = {it \in order_items : it.order_id # id}
            /\ customers' = update_customer_total_preps("DELETE", customers,
                                                        orders[id].customer_id)
            /\ deletedIn' = deletedIn \cup {orders[id].location_id}
            /\ supplied' = [o \in DOMAIN supplied \ {id} |-> supplied[o]]
            /\ response' = 200
            /\ UNCHANGED <<catalog, impl, locations, nextId, now, tx>>

\* DELETE /api/customers/:id
deleteCustomer(id) ==
    /\ IF id \notin DOMAIN customers THEN Reject(404)
       ELSE /\ ~Locked(id)
            /\ customers' = [c \in DOMAIN customers \ {id} |-> customers[c]]
            /\ orders' = [o \in DOMAIN orders |->
                            IF orders[o].customer_id = id
                            THEN [orders[o] EXCEPT !.customer_id = NULL]
                            ELSE orders[o]]
            /\ response' = 200
            /\ UNCHANGED <<catalog, impl, locations, order_items, nextId, now, deletedIn, supplied, tx>>

\* time passes
Tick ==
    /\ now < MaxClock
    /\ now' = now + 1
    /\ UNCHANGED <<catalog, impl, locations, customers, orders, order_items, nextId,
                   response, deletedIn, supplied, tx>>

-----------------------------------------------------------------------------
(* The ingredients controller; each handler is one whole transaction *)

\* POST /api/ingredients
createIngredient(food_type_id, specification_id, cook_type_id, name, description, body_quantities) ==
    /\ LET quantities == Default(body_quantities, << >>) IN
       IF food_type_id \in {Undefined, NULL} THEN Reject(400)
       ELSE LET row == IngredientRow(food_type_id, specification_id, cook_type_id,
                                     name, description)
                id == IngredientNames[nextIngredient + 1]
            IN IF IngredientError(row) # 0 THEN Reject(IngredientError(row))
               ELSE IF TierError(quantities) # 0 THEN Reject(TierError(quantities))
               ELSE /\ nextIngredient < MaxIngredients
                    /\ nextIngredient' = nextIngredient + 1
                    /\ ingredients' = InsertRow(ingredients, id, row)
                    /\ ingredient_quantities' =
                           ingredient_quantities \cup TierRows(id, quantities)
                    /\ response' = 201
                    /\ UNCHANGED <<impl, locations, now, orderState, userState, settingsState,
                                   menuState, itx>>

\* PUT /api/ingredients/:id
updateIngredient(id, food_type_id, specification_id, cook_type_id, name, description, is_active, body_quantities) ==
    /\ IF id \notin DOMAIN ingredients THEN Reject(404)
       ELSE LET row == [ingredients[id] EXCEPT
                           !.food_type_id = Assigned(@, food_type_id),
                           !.specification_id = AssignedNullable(@, specification_id),
                           !.cook_type_id = AssignedNullable(@, cook_type_id),
                           !.name = Assigned(@, name),
                           !.description = Assigned(@, description),
                           !.is_active = AssignedFlag(@, is_active)]
                quantities == Default(body_quantities, << >>)
            IN IF IngredientError(row) # 0 THEN Reject(IngredientError(row))
               ELSE IF TierError(quantities) # 0 THEN Reject(TierError(quantities))
               ELSE /\ ingredients' = [ingredients EXCEPT ![id] = row]
                    /\ ingredient_quantities' =
                           replaceQuantities(ingredient_quantities, id, body_quantities)
                    /\ response' = 200
                    /\ UNCHANGED <<impl, locations, now, orderState, userState, settingsState,
                                   menuState, nextIngredient, itx>>

\* DELETE /api/ingredients/:id; the tiers and the composition rows of the
\* ingredient go with it (ON DELETE CASCADE)
deleteIngredient(id) ==
    /\ IF id \notin DOMAIN ingredients THEN Reject(404)
       ELSE /\ ingredients' = [i \in DOMAIN ingredients \ {id} |-> ingredients[i]]
            /\ ingredient_quantities' =
                   {t \in ingredient_quantities : t.ingredient_id # id}
            /\ menu_item_ingredients' =
                   {c \in menu_item_ingredients : c.ingredient_id # id}
            /\ response' = 200
            /\ UNCHANGED <<impl, locations, now, orderState, userState, settingsState,
                           nextIngredient, itx, menu_items, menu_item_photos, nextMenuItem,
                           displayGiven>>

-----------------------------------------------------------------------------
(* updateIngredient statement by statement: request r runs its transaction on
   a connection of its own, and the statements of other requests come in
   between (READ COMMITTED). A statement that has to wait for a row lock is
   an action that is not enabled until the holder ends. The request carries
   name and quantities; no ingredient is deleted while a request is in flight. *)

itxFrame == <<impl, locations, now, orderState, userState, settingsState, menuState,
              nextIngredient>>

\* the ingredient after the assignments of a request that carries only name
itxAssigned(old, name) ==
    [old EXCEPT !.specification_id = AssignedNullable(@, Undefined),
                !.cook_type_id = AssignedNullable(@, Undefined),
                !.name = Assigned(@, name)]

\* a transaction other than r has updated the ingredients row and not ended
IngredientLocked(r, id) ==
    \E o \in Updaters \ {r} : itx[o].locked /\ itx[o].id = id

\* the tiers the transaction of r has inserted so far
itxInserted(r) == TierRows(itx[r].id, SubSeq(itx[r].quantities, 1, itx[r].n))

\* a statement failed or the handler threw: ROLLBACK, and the error handler
\* answers
itxRollback(r, code) ==
    /\ itx' = [itx EXCEPT ![r] = [IdleItx EXCEPT !.pc = "rolledback"]]
    /\ response' = code
    /\ UNCHANGED <<ingredients, ingredient_quantities, itxFrame>>

\* BEGIN; typeorm: `findOne({ where: { id } })`, 404 if there is none, and the
\* assignments to the entity
itxBegin(r, id, name, body_quantities) ==
    /\ itx[r].pc = "idle"
    /\ IF impl = "typeorm" /\ id \notin DOMAIN ingredients THEN itxRollback(r, 404)
       ELSE /\ itx' = [itx EXCEPT ![r] =
                         [IdleItx EXCEPT
                             !.pc = "begun", !.id = id, !.name = name,
                             !.row = IF impl = "typeorm"
                                     THEN Some(itxAssigned(ingredients[id], name))
                                     ELSE None,
                             !.quantities = Default(body_quantities, << >>),
                             !.replaces = body_quantities # None]]
            /\ UNCHANGED <<response, ingredients, ingredient_quantities, itxFrame>>

\* pg: `UPDATE ingredients SET ... WHERE id = $7`, 404 if it returns no row;
\* typeorm: `ingredientRepo.save(ingredient)`, which sends an UPDATE only when
\* a column of the entity differs from the row. The UPDATE takes the lock of
\* the row and keeps it until the transaction ends.
itxUpdate(r) ==
    /\ itx[r].pc = "begun"
    /\ LET id == itx[r].id IN
       IF id \notin DOMAIN ingredients THEN itxRollback(r, 404)
       ELSE IF impl = "typeorm" /\ itx[r].row = Some(ingredients[id])
       THEN /\ itx' = [itx EXCEPT ![r] = [@ EXCEPT !.pc = "updated"]]
            /\ UNCHANGED <<response, ingredients, ingredient_quantities, itxFrame>>
       ELSE /\ ~IngredientLocked(r, id)
            /\ LET row == IF impl = "pg" THEN itxAssigned(ingredients[id], itx[r].name)
                          ELSE itx[r].row[1]
               IN IF IngredientError(row) # 0 THEN itxRollback(r, IngredientError(row))
                  ELSE /\ itx' = [itx EXCEPT ![r] = [@ EXCEPT !.pc = "updated",
                                                              !.locked = TRUE,
                                                              !.row = Some(row)]]
                       /\ UNCHANGED <<response, ingredients, ingredient_quantities,
                                      itxFrame>>

\* `if (quantities && Array.isArray(quantities))`: the DELETE of the
\* ingredient's tiers finds the rows committed when it starts; without the
\* array the tiers are only read
itxDeleteScan(r) ==
    /\ itx[r].pc = "updated"
    /\ itx' = [itx EXCEPT ![r] =
                 IF itx[r].replaces
                 THEN [@ EXCEPT !.pc = "deleting",
                                !.targets = {t \in ingredient_quantities :
                                                t.ingredient_id = itx[r].id}]
                 ELSE [@ EXCEPT !.pc = "inserting"]]
    /\ UNCHANGED <<response, ingredients, ingredient_quantities, itxFrame>>

\* the DELETE removes the rows it found, after waiting for the transactions
\* that have deleted some of them; a row a committed transaction deleted is
\* skipped, a row inserted after the DELETE started is not seen
itxDeleteRows(r) ==
    /\ itx[r].pc = "deleting"
    /\ \A o \in Updaters \ {r} : itx[o].deleted \cap itx[r].targets = {}
    /\ itx' = [itx EXCEPT ![r] = [@ EXCEPT !.pc = "inserting", !.deleted = itx[r].targets]]
    /\ UNCHANGED <<response, ingredients, ingredient_quantities, itxFrame>>

\* the INSERT of the next tier: quantity_value is NOT NULL (500), and
\* UNIQUE(ingredient_id, quantity_value) (23505, 409) against the rows of this
\* transaction and the committed rows it has not deleted, after waiting for
\* the transactions that have inserted or deleted a row with the same key
itxInsert(r) ==
    /\ itx[r].pc = "inserting"
    /\ itx[r].n < Len(itx[r].quantities)
    /\ LET qty == itx[r].quantities[itx[r].n + 1]
           sameKey(t) == /\ t.ingredient_id = itx[r].id
                         /\ t.quantity_value = qty.quantity_value
       IN IF qty.quantity_value \in {Undefined, NULL} THEN itxRollback(r, 500)
          ELSE IF \E t \in itxInserted(r) : sameKey(t) THEN itxRollback(r, 409)
          ELSE /\ \A o \in Updaters \ {r} :
                     \A t \in itx[o].deleted \cup itxInserted(o) :
                         itx[o].pc = "inserting" => ~sameKey(t)
               /\ IF \E t \in ingredient_quantities \ itx[r].deleted : sameKey(t)
                  THEN itxRollback(r, 409)
                  ELSE /\ itx' = [itx EXCEPT ![r] = [@ EXCEPT !.n = @ + 1]]
                       /\ UNCHANGED <<response, ingredients, ingredient_quantities,
                                      itxFrame>>

\* COMMIT and the answer: what the transaction wrote becomes visible and its
\* locks are released; the DELETE of another transaction that waits no longer
\* finds the rows this one deleted
itxCommit(r) ==
    /\ itx[r].pc = "inserting"
    /\ itx[r].n = Len(itx[r].quantities)
    /\ ingredient_quantities' = (ingredient_quantities \ itx[r].deleted) \cup itxInserted(r)
    /\ ingredients' = IF itx[r].locked
                      THEN [ingredients EXCEPT ![itx[r].id] = itx[r].row[1]]
                      ELSE ingredients
    /\ itx' = [o \in Updaters |->
                 IF o = r
                 THEN [itx[r] EXCEPT !.pc = "committed", !.locked = FALSE,
                                     !.targets = {}, !.deleted = {}]
                 ELSE [itx[o] EXCEPT !.targets = @ \ itx[r].deleted]]
    /\ response' = 200
    /\ UNCHANGED itxFrame

-----------------------------------------------------------------------------
(* createOrder statement by statement: request r runs its transaction on a
   connection of its own, and the statements of other requests come in between.
   A statement reads what is committed and what its own transaction wrote
   (READ COMMITTED, the isolation level both controllers run at). *)

\* the handler up to BEGIN
txBegin(r, location_id, customer_id, notes, body_items) ==
    /\ tx[r].pc = "idle"
    /\ LET items == Default(body_items, << >>) IN
       IF Invalid(location_id, items) THEN Reject(400)
       ELSE /\ tx' = [tx EXCEPT ![r] =
                        [pc |-> "begin", location_id |-> location_id,
                         customer_id |-> OrNull(customer_id), notes |-> notes,
                         items |-> items, count |-> 0, id |-> 0, n |-> 0]]
            /\ UNCHANGED <<catalog, impl, locations, customers, orders, order_items, nextId,
                           now, response, deletedIn, supplied>>

\* the COUNT(*) of the location's orders
txCount(r) ==
    /\ tx[r].pc = "begin"
    /\ tx' = [tx EXCEPT ![r] = [@ EXCEPT !.pc = "counted",
                                         !.count = orderCount(orders, tx[r].location_id)]]
    /\ UNCHANGED <<catalog, impl, locations, customers, orders, order_items, nextId, now,
                   response, deletedIn, supplied>>

\* variant: the statements run outside a transaction, so what was inserted
\* before the failing statement stays
RollbackKeepsRows(r, code) ==
    /\ tx' = [tx EXCEPT ![r] = IdleTx]
    /\ response' = code
    /\ IF tx[r].pc = "items"
       THEN /\ orders' = InsertOrder(orders, tx[r].id,
                                     OrderRow(tx[r].location_id, tx[r].customer_id,
                                              tx[r].count, tx[r].items, tx[r].notes))
            /\ order_items' = order_items
                                 \cup ItemRows(tx[r].id, SubSeq(tx[r].items, 1, tx[r].n))
            /\ customers' = update_customer_total_preps("INSERT", customers,
                                                        tx[r].customer_id)
            /\ supplied' = InsertOrder(supplied, tx[r].id, tx[r].items)
       ELSE UNCHANGED <<customers, orders, order_items, supplied>>
    /\ UNCHANGED <<catalog, impl, locations, now, deletedIn>>

\* a statement failed: ROLLBACK, and the error handler answers
Rollback(r, code) ==
    /\ tx' = [tx EXCEPT ![r] = IdleTx]
    /\ response' = code
    /\ UNCHANGED <<catalog, impl, locations, customers, orders, order_items, now, deletedIn,
                   supplied>>

\* the order the transaction of r has inserted
txRow(r) ==
    OrderRow(tx[r].location_id, tx[r].customer_id, tx[r].count, tx[r].items, tx[r].notes)

\* INSERT INTO orders; the trigger then updates the customer's row and waits
\* for its lock
txInsertOrder(r) ==
    /\ tx[r].pc = "counted"
    /\ IF OrderFkOk(txRow(r))
       THEN /\ ~Locked(tx[r].customer_id)
            /\ nextId' = nextId + 1
            /\ tx' = [tx EXCEPT ![r] = [@ EXCEPT !.pc = "items", !.id = nextId + 1]]
            /\ UNCHANGED <<catalog, impl, locations, customers, orders, order_items, now,
                           response, deletedIn, supplied>>
       ELSE Rollback(r, 400) /\ UNCHANGED nextId

\* INSERT INTO order_items, for the next item of the request
txInsertItem(r) ==
    /\ tx[r].pc = "items"
    /\ tx[r].n < Len(tx[r].items)
    /\ IF OrderItemFkOk(OrderItemRow(tx[r].id, tx[r].n + 1, tx[r].items[tx[r].n + 1]))
       THEN /\ tx' = [tx EXCEPT ![r] = [@ EXCEPT !.n = @ + 1]]
            /\ UNCHANGED <<catalog, impl, locations, customers, orders, order_items, nextId,
                           now, response, deletedIn, supplied>>
       ELSE Rollback(r, 400) /\ UNCHANGED nextId

\* res.status(201).json(...): the TypeORM controller sends it inside the
\* transaction's callback, the raw-SQL controller after COMMIT
txRespond(r) ==
    /\ tx[r].pc = IF impl = "typeorm" THEN "items" ELSE "committed"
    /\ tx[r].n = Len(tx[r].items)
    /\ response' = 201
    /\ tx' = [tx EXCEPT ![r] = IF impl = "typeorm" THEN [@ EXCEPT !.pc = "responded"]
                                                   ELSE IdleTx]
    /\ UNCHANGED <<catalog, impl, locations, customers, orders, order_items, nextId, now,
                   deletedIn, supplied>>

\* variant: a unique index on (location_id, order_number) fails the
\* transaction whose number is already taken
txCommitUnique(r) ==
    /\ tx[r].pc = IF impl = "typeorm" THEN "responded" ELSE "items"
    /\ tx[r].n = Len(tx[r].items)
    /\ IF \E o \in DOMAIN orders :
             /\ orders[o].location_id = tx[r].location_id
             /\ orders[o].order_number = txRow(r).order_number
       THEN /\ tx' = [tx EXCEPT ![r] = IdleTx]
            /\ UNCHANGED <<customers, orders, order_items, supplied>>
       ELSE /\ orders' = InsertOrder(orders, tx[r].id, txRow(r))
            /\ order_items' = order_items \cup ItemRows(tx[r].id, tx[r].items)
            /\ customers' = update_customer_total_preps("INSERT", customers,
                                                        tx[r].customer_id)
            /\ supplied' = InsertOrder(supplied, tx[r].id, tx[r].items)
            /\ tx' = [tx EXCEPT ![r] = IF impl = "typeorm" THEN IdleTx
                                                           ELSE [@ EXCEPT !.pc = "committed"]]
    /\ UNCHANGED <<catalog, impl, locations, nextId, now, response, deletedIn>>

\* COMMIT: the order, its items and the customer's counter become visible
txCommit(r) ==
    /\ tx[r].pc = IF impl = "typeorm" THEN "responded" ELSE "items"
    /\ tx[r].n = Len(tx[r].items)
    /\ orders' = InsertOrder(orders, tx[r].id, txRow(r))
    /\ order_items' = order_items \cup ItemRows(tx[r].id, tx[r].items)
    /\ customers' = update_customer_total_preps("INSERT", customers, tx[r].customer_id)
    /\ supplied' = InsertOrder(supplied, tx[r].id, tx[r].items)
    /\ tx' = [tx EXCEPT ![r] = IF impl = "typeorm" THEN IdleTx
                                                   ELSE [@ EXCEPT !.pc = "committed"]]
    /\ UNCHANGED <<catalog, impl, locations, nextId, now, response, deletedIn>>

-----------------------------------------------------------------------------
(* The menu controller; each handler is one whole transaction *)

\* POST /api/menu
createMenuItem(location_id, name, price, body_status, body_photos, body_ingredients) ==
    /\ LET status == IF body_status = Undefined THEN "draft" ELSE body_status
           photos == Default(body_photos, << >>)
           ings == Default(body_ingredients, << >>)
       IN
       IF location_id \in {Undefined, NULL} \/ name \in {Undefined, NULL} THEN Reject(400)
       ELSE LET row == MenuItemRow(menu_items, location_id, name, price, status)
                id == MenuItemNames[nextMenuItem + 1]
            IN IF MenuWriteError(row, photos, ings) # 0
               THEN Reject(MenuWriteError(row, photos, ings))
               ELSE /\ nextMenuItem < MaxMenuItems
                    /\ nextMenuItem' = nextMenuItem + 1
                    /\ menu_items' = InsertRow(menu_items, id, row)
                    /\ displayGiven' =
                           InsertRow(displayGiven, id, <<row.location_id, row.display_id>>)
                    /\ menu_item_photos' = menu_item_photos \cup PhotoRows(id, photos)
                    /\ menu_item_ingredients' =
                           menu_item_ingredients \cup CompositionRows(id, ings)
                    /\ response' = 201
                    /\ UNCHANGED <<impl, locations, now, orderState, userState, settingsState, ingredientState>>

\* PUT /api/menu/:id
updateMenuItem(id, name, price, status, body_photos, body_ingredients) ==
    /\ IF id \notin DOMAIN menu_items THEN Reject(404)
       ELSE LET row == [menu_items[id] EXCEPT
                           !.name = IF name = Undefined THEN @ ELSE name,
                           !.price = IF price = None THEN @ ELSE Round2(price[1]),
                           !.status = IF status = Undefined THEN @ ELSE status]
                photos == Default(body_photos, << >>)
                ings == Default(body_ingredients, << >>)
            IN IF MenuWriteError(row, photos, ings) # 0
               THEN Reject(MenuWriteError(row, photos, ings))
               ELSE /\ menu_items' = [menu_items EXCEPT ![id] = row]
                    /\ menu_item_photos' = replacePhotos(menu_item_photos, id, body_photos)
                    /\ menu_item_ingredients' =
                           replaceComposition(menu_item_ingredients, id, body_ingredients)
                    /\ response' = 200
                    /\ UNCHANGED <<impl, locations, now, orderState, userState, settingsState, ingredientState,
                                   nextMenuItem, displayGiven>>

\* the order_items of a deleted menu item keep their row: ON DELETE SET NULL
menuItemsSetNull(tbl, ids) ==
    {IF it.menu_item_id \in ids THEN [it EXCEPT !.menu_item_id = NULL] ELSE it : it \in tbl}

\* DELETE /api/menu/:id; the photos and the composition rows of the item go
\* with it (ON DELETE CASCADE)
deleteMenuItem(id) ==
    /\ IF id \notin DOMAIN menu_items THEN Reject(404)
       ELSE /\ menu_items' = [m \in DOMAIN menu_items \ {id} |-> menu_items[m]]
            /\ menu_item_photos' = {ph \in menu_item_photos : ph.menu_item_id # id}
            /\ menu_item_ingredients' =
                   {c \in menu_item_ingredients : c.menu_item_id # id}
            /\ order_items' = menuItemsSetNull(order_items, {id})
            /\ response' = 200
            /\ UNCHANGED <<impl, locations, now, customers, orders, nextId, deletedIn,
                           supplied, tx, userState, settingsState, ingredientState, nextMenuItem, displayGiven>>

\* PATCH /api/menu/:id/toggle-status
toggleMenuStatus(id) ==
    /\ IF id \notin DOMAIN menu_items THEN Reject(404)
       ELSE /\ menu_items' = [menu_items EXCEPT ![id].status = toggled(@)]
            /\ response' = 200
            /\ UNCHANGED <<impl, locations, now, orderState, userState, settingsState, ingredientState,
                           menu_item_photos, menu_item_ingredients, nextMenuItem, displayGiven>>

-----------------------------------------------------------------------------
(* The locations controller *)

\* variant: no row references a location
locatedInNone(tbl, location_id) == {}

\* the rows of a table that reference a location: `location_id UUID NOT NULL
\* REFERENCES locations(id) ON DELETE CASCADE`
locatedIn(tbl, location_id) == {k \in DOMAIN tbl : tbl[k].location_id = location_id}

\* a createOrder transaction in flight holds a lock on a row the DELETE of the
\* location has to touch: the location its order references, a customer
\* whose counter its trigger has updated
LocationLocked(id) ==
    \/ \E r \in Requests : tx[r].pc \in {"items", "responded"} /\ tx[r].location_id = id
    \/ \E c \in DOMAIN customers :
          /\ Locked(c)
          /\ \/ customers[c].location_id = id
             \/ \E o \in locatedIn(orders, id) : orders[o].customer_id = c

\* DELETE /api/locations/:id; the one DELETE statement takes the menu items,
\* customers, users and orders of the location with it, and with them their
\* photos, composition rows and order items (ON DELETE CASCADE); a reference
\* to a deleted customer or menu item is SET NULL, and the trigger on orders
\* runs for every order deleted
deleteLocation(id) ==
    /\ IF id \notin locations THEN Reject(404)
       ELSE LET goneMenu == locatedIn(menu_items, id)
                goneCustomers == locatedIn(customers, id)
                goneOrders == locatedIn(orders, id)
            IN /\ ~LocationLocked(id)
               /\ locations' = locations \ {id}
               /\ menu_items' = [m \in DOMAIN menu_items \ goneMenu |-> menu_items[m]]
               /\ menu_item_photos' =
                      {ph \in menu_item_photos : ph.menu_item_id \notin goneMenu}
               /\ menu_item_ingredients' =
                      {c \in menu_item_ingredients : c.menu_item_id \notin goneMenu}
               /\ users' = [u \in DOMAIN users \ locatedIn(users, id) |-> users[u]]
               /\ customers' =
                      [c \in DOMAIN customers \ goneCustomers |->
                          [customers[c] EXCEPT !.total_preps =
                              @ - Cardinality({o \in goneOrders : orders[o].customer_id = c})]]
               /\ orders' =
                      [o \in DOMAIN orders \ goneOrders |->
                          IF orders[o].customer_id \in goneCustomers
                          THEN [orders[o] EXCEPT !.customer_id = NULL]
                          ELSE orders[o]]
               /\ order_items' =
                      menuItemsSetNull({it \in order_items : it.order_id \notin goneOrders},
                                       goneMenu)
               /\ deletedIn' = IF goneOrders = {} THEN deletedIn ELSE deletedIn \cup {id}
               /\ supplied' = [o \in DOMAIN supplied \ goneOrders |-> supplied[o]]
               /\ response' = 200
               /\ UNCHANGED <<impl, now, nextId, tx, nextUser, settingsState, body, ingredientState, nextMenuItem, displayGiven>>

-----------------------------------------------------------------------------
(* The identity gate and the users controller: its TypeORM version when
   impl = "typeorm", its raw-SQL version when impl = "pg".  A request's token
   is what follows `Bearer ` in its Authorization header, Undefined without
   one.  A user's name and contact_number are left out. *)

\* `throw new AppError(message, statusCode)`, sent by the error handler
AppError(message, statusCode) ==
    /\ response' = statusCode
    /\ body' = Body(message, NULL)
    /\ UNCHANGED <<impl, locations, now, orderState, users, nextUser, settingsState, ingredientState,
                   menuState>>

\* variant: the account_status of the user is not looked at
protectAnyStatus(token) == token # Undefined /\ token \in DOMAIN users

\* the middleware calls next() without an error
protect(token) ==
    /\ token # Undefined
    /\ token \in DOMAIN users
    /\ users[token].account_status = "active"

\* the 401 of the middleware
Unauthorized(token) ==
    AppError(IF token = Undefined THEN "Not authorized to access this route"
             ELSE "User not found or inactive", 401)

\* the 200 of a handler behind the gate
Ok(code) ==
    /\ response' = code
    /\ body' = NoBody

\* GET /api/users/me
getMe(token) ==
    /\ IF ~protect(token) THEN Unauthorized(token)
       ELSE /\ Ok(200)
            /\ UNCHANGED <<impl, locations, now, orderState, users, nextUser, settingsState,
                           ingredientState, menuState>>

\* the 200 of loginUser: the token is the id of the user
LoggedIn(id) ==
    /\ response' = 200
    /\ body' = Body(NULL, id)

\* the TypeORM version: password first, and an admin account that is not
\* active is activated
loginVerifyFirst(id, password) ==
    LET user == users[id] IN
    IF ~compare(password, user.password_hash) THEN AppError("Invalid credentials", 401)
    ELSE IF user.account_status # "active" /\ user.role = "admin"
    THEN /\ users' = [users EXCEPT ![id].account_status = "active"]
         /\ LoggedIn(id)
         /\ UNCHANGED <<impl, locations, now, orderState, nextUser, settingsState, ingredientState,
                        menuState>>
    ELSE IF user.account_status # "active" THEN AppError("Account is not active", 401)
    ELSE /\ LoggedIn(id)
         /\ UNCHANGED <<impl, locations, now, orderState, users, nextUser, settingsState,
                        ingredientState, menuState>>

\* the raw-SQL version: account_status first, then the password
loginStatusFirst(id, password) ==
    LET user == users[id] IN
    IF user.account_status # "active" THEN AppError("Account is not active", 401)
    ELSE IF ~compare(password, user.password_hash)
    THEN AppError("Invalid credentials", 401)
    ELSE /\ LoggedIn(id)
         /\ UNCHANGED <<impl, locations, now, orderState, users, nextUser, settingsState,
                        ingredientState, menuState>>

\* POST /api/users/login; the query by email returns one of the rows that
\* have it
loginUser(email, password) ==
    /\ IF email = Undefined \/ password = Undefined
       THEN AppError("Email and password are required", 400)
       ELSE IF byEmail(email) = {} THEN AppError("Invalid credentials", 401)
       ELSE \E id \in byEmail(email) :
                IF impl = "typeorm" THEN loginVerifyFirst(id, password)
                ELSE loginStatusFirst(id, password)

\* the TypeORM version: `let targetLocationId = req.user?.location_id`, which
\* only an admin replaces by the location_id of the body
targetLocation(principal, location_id) ==
    IF principal.role = "admin" /\ location_id # Undefined THEN location_id
    ELSE principal.location_id

\* what createUser throws, thrown by the handler or mapped by the error
\* handler from the code of the database: 23503 for the foreign key, 23505
\* for UNIQUE(location_id, email); NoError when it goes through
Thrown(message, statusCode) == [message |-> message, statusCode |-> statusCode]
NoError == Thrown(NULL, 0)

createUserError(principal, location_id, email, password) ==
    IF impl = "typeorm"
    THEN IF email = Undefined \/ password = Undefined
         THEN Thrown("Email, password, and name are required", 400)
         ELSE IF targetLocation(principal, location_id) \notin locations
         THEN Thrown("Location not found", 404)
         ELSE IF EmailTaken(targetLocation(principal, location_id), email)
         THEN Thrown("Email already registered for this location", 400)
         ELSE NoError
    ELSE IF location_id = Undefined \/ email = Undefined \/ password = Undefined
         THEN Thrown("Location ID, email, password, and name are required", 400)
         ELSE IF location_id \notin locations
         THEN Thrown("Referenced resource does not exist", 400)
         ELSE IF EmailTaken(location_id, email)
         THEN Thrown("Resource already exists", 409)
         ELSE NoError

\* POST /api/users: the route is `.post(protect, createUser)`
createUser(token, location_id, email, password, role, account_status) ==
    /\ IF ~protect(token) THEN Unauthorized(token)
       ELSE LET principal == users[token]
                error == createUserError(principal, location_id, email, password)
                row == UserRow(IF impl = "typeorm"
                               THEN targetLocation(principal, location_id)
                               ELSE location_id,
                               email, password,
                               IF role = Undefined THEN "staff" ELSE role,
                               IF impl = "typeorm" /\ account_status # Undefined
                               THEN account_status ELSE "active")
            IN IF error # NoError THEN AppError(error.message, error.statusCode)
               ELSE /\ nextUser < MaxUsers
                    /\ nextUser' = nextUser + 1
                    /\ users' = InsertRow(users, UserNames[nextUser + 1], row)
                    /\ Ok(201)
                    /\ UNCHANGED <<impl, locations, now, orderState, settingsState, ingredientState,
                                   menuState>>

\* the rows a principal may update or delete: in the TypeORM version those of
\* its own location unless it is an admin, in the raw-SQL version all
withinReach(principal, id) ==
    /\ id \in DOMAIN users
    /\ impl = "typeorm" /\ principal.role # "admin"
           => users[id].location_id = principal.location_id

\* PUT /api/users/:id
updateUser(token, id, role, account_status) ==
    /\ IF ~protect(token) THEN Unauthorized(token)
       ELSE IF ~withinReach(users[token], id) THEN AppError("User not found", 404)
       ELSE /\ users' = [users EXCEPT
                            ![id].role = IF role = Undefined THEN @ ELSE role,
                            ![id].account_status =
                                IF account_status = Undefined THEN @ ELSE account_status]
            /\ Ok(200)
            /\ UNCHANGED <<impl, locations, now, orderState, nextUser, settingsState, ingredientState,
                           menuState>>

\* DELETE /api/users/:id
deleteUser(token, id) ==
    /\ IF ~protect(token) THEN Unauthorized(token)
       ELSE IF ~withinReach(users[token], id) THEN AppError("User not found", 404)
       ELSE /\ users' = [u \in DOMAIN users \ {id} |-> users[u]]
            /\ Ok(200)
            /\ UNCHANGED <<impl, locations, now, orderState, nextUser, settingsState, ingredientState,
                           menuState>>

-----------------------------------------------------------------------------
(* The settings controller: the food categories.  A category's
   show_specification and show_cook_type are left out. *)

\* variant: one more than the number of categories
nextDisplayOrderOfCount(tbl) == Cardinality(DOMAIN tbl) + 1

\* `(maxResult?.max || 0) + 1` over MAX(category.display_order) in the TypeORM
\* version, `COALESCE(MAX(display_order), 0) + 1` in the raw-SQL version; the
\* MAX of no row is NULL
nextDisplayOrder(tbl) ==
    LET existing == {tbl[c].display_order : c \in DOMAIN tbl}
        max == IF existing = {} THEN None ELSE Some(Max(existing))
    IN IF impl = "typeorm" THEN Or(max, 0) + 1 ELSE Default(max, 0) + 1

\* `let order = display_order; if (!order) order = ...`
CategoryRow(tbl, name, display_order) ==
    [name |-> name,
     display_order |-> IF Or(display_order, 0) = 0 THEN nextDisplayOrder(tbl)
                       ELSE display_order[1]]

\* name VARCHAR(100) NOT NULL UNIQUE
CategoryNameTaken(tbl, name) == \E c \in DOMAIN tbl : tbl[c].name = name

\* POST /api/settings/categories
createCategory(name, display_order) ==
    /\ IF name = Undefined THEN Reject(400)
       ELSE IF CategoryNameTaken(food_categories, name) THEN Reject(409)
       ELSE /\ nextCategory < MaxCategories
            /\ nextCategory' = nextCategory + 1
            /\ food_categories' = InsertRow(food_categories, CategoryNames[nextCategory + 1],
                                            CategoryRow(food_categories, name, display_order))
            /\ response' = 201
            /\ UNCHANGED <<impl, locations, now, orderState, userState, ingredientState,
                           menuState>>

\* PUT /api/settings/categories/:id
updateCategory(id, display_order) ==
    /\ IF id \notin DOMAIN food_categories THEN Reject(404)
       ELSE /\ food_categories' =
                   [food_categories EXCEPT
                       ![id].display_order = IF display_order = None THEN @
                                             ELSE display_order[1]]
            /\ response' = 200
            /\ UNCHANGED <<impl, locations, now, orderState, userState, nextCategory,
                           ingredientState, menuState>>

-----------------------------------------------------------------------------
(* Requests *)

Item(m, q, p) == [menu_item_id |-> m, quantity |-> q, unit_price |-> p]

\* an item at 1.00 and an item naming a menu item that does not exist
Plain == Item("M1", Some(1), Some(200))
Dangling == Item(NoMenuItem, Some(1), Some(200))

\* the ids a request may name: those generated so far and one that names no order
OrderIds == 1..(nextId + 1)

\* Order numbering and request validation: orders are created and deleted
Next ==
    \/ \E l \in LocationIds \cup {Undefined}, c \in {Undefined, "C1"},
          items \in {None, Some(<< >>), Some(<<Plain>>)} :
          nextId < MaxOrders /\ createOrder(l, c, Undefined, items)
    \/ \E id \in OrderIds : deleteOrder(id)

Spec == Init /\ [][Next]_vars

\* The customers' counters: orders are created, moved between customers,
\* progressed and deleted, customers are deleted
NextPreps ==
    \/ \E c \in CustomerIds \cup {Undefined, NoCustomer} :
          nextId < MaxPrepsOrders /\ createOrder("L1", c, Undefined, Some(<<Plain>>))
    \/ \E id \in OrderIds, c \in CustomerIds \cup {Undefined, NULL} :
          updateOrder(id, c, Undefined, Undefined)
    \/ \E id \in OrderIds, s \in {"delivered", Undefined, "shipped"} :
          updateOrderStatus(id, s)
    \/ \E id \in OrderIds : deleteOrder(id)
    \/ \E c \in CustomerIds : deleteCustomer(c)

SpecPreps == Init /\ [][NextPreps]_vars

\* The status of an order over time
NextStatus ==
    \/ nextId < MaxStatusOrders /\ createOrder("L1", Undefined, Undefined, Some(<<Plain>>))
    \/ \E id \in OrderIds, s \in validStatuses \cup {Undefined, "shipped"} :
          updateOrderStatus(id, s)
    \/ \E id \in OrderIds, n \in {Undefined, "note"},
          s \in {Undefined, "ready", "shipped"} :
          updateOrder(id, Undefined, n, s)
    \/ Tick

SpecStatus == Init /\ [][NextStatus]_vars

\* The amounts of an order: a request against an empty orders table
Quantities == {None, Some(0), Some(2), Some(-1)}
UnitPrices == {None, Some(1), Some(200)}
PricedItems == {Item("M1", q, p) : q \in Quantities, p \in UnitPrices}
ItemLists == UNION {[1..n -> PricedItems] : n \in 1..MaxItems}

NextPrice ==
    \E c \in {Undefined, "C1"}, items \in ItemLists :
        DOMAIN orders = {} /\ createOrder("L1", c, Undefined, Some(items))

SpecPrice == Init /\ [][NextPrice]_vars

\* Overlapping createOrder transactions
Begun == {r \in Requests : tx[r].pc \in {"begin", "counted"}}

NextTx ==
    \/ \E r \in Requests, l \in {"L1", Undefined}, c \in {Undefined, "C1", NoCustomer},
          items \in {None, Some(<<Plain>>), Some(<<Plain, Dangling>>)} :
          nextId + Cardinality(Begun) < MaxTxOrders /\ txBegin(r, l, c, Undefined, items)
    \/ \E r \in Requests : txCount(r)
    \/ \E r \in Requests : txInsertOrder(r)
    \/ \E r \in Requests : txInsertItem(r)
    \/ \E r \in Requests : txRespond(r)
    \/ \E r \in Requests : txCommit(r)
    \/ \E id \in OrderIds : deleteOrder(id)

SpecTx == Init /\ [][NextTx]_vars

\* the ingredient ids a request may name: those generated so far and one
\* that names no ingredient
IngredientIds == {IngredientNames[n] : n \in 1..nextIngredient} \cup {NoIngredient}

Tier(v, p) ==
    [quantity_value |-> v, quantity_grams |-> None, price |-> p, is_available |-> None]

\* the quantities of a request: omitted, empty, one tier, two tiers, the
\* same quantity_value twice, a tier without quantity_value
BodyQuantities ==
    { None,
      Some(<< >>),
      Some(<<Tier("100g", None)>>),
      Some(<<Tier("250g", Some(1))>>),
      Some(<<Tier("100g", Some(1)), Tier("250g", None)>>),
      Some(<<Tier("100g", None), Tier("100g", Some(1))>>),
      Some(<<Tier("250g", None), Tier(Undefined, None)>>) }

\* the quantities of the concurrent updates: omitted, one tier, another tier
RaceQuantities == {None, Some(<<Tier("100g", None)>>), Some(<<Tier("250g", None)>>)}

\* Concurrent updates of an ingredient
NextRace ==
    \/ nextIngredient < MaxRaceIngredients
          /\ createIngredient("F1", Undefined, Undefined, "rice", Undefined,
                              Some(<<Tier("50g", None)>>))
    \/ \E r \in Updaters, id \in IngredientIds, n \in {Undefined, "brown rice"},
          q \in RaceQuantities : itxBegin(r, id, n, q)
    \/ \E r \in Updaters : itxUpdate(r)
    \/ \E r \in Updaters : itxDeleteScan(r)
    \/ \E r \in Updaters : itxDeleteRows(r)
    \/ \E r \in Updaters : itxInsert(r)
    \/ \E r \in Updaters : itxCommit(r)

SpecRace == Init /\ [][NextRace]_vars

\* The quantity tiers of the ingredients
NextTiers ==
    \/ \E f \in {"F1", NoFoodType}, q \in BodyQuantities :
          nextIngredient < MaxIngredients
              /\ createIngredient(f, Undefined, Undefined, "rice", Undefined, q)
    \/ \E id \in IngredientIds, q \in BodyQuantities :
          updateIngredient(id, Undefined, Undefined, Undefined, "brown rice", Undefined,
                           None, q)
    \/ \E id \in IngredientIds : deleteIngredient(id)

SpecTiers == Init /\ [][NextTiers]_vars

FieldFoodTypes == {Undefined, NULL, "F2"}
FieldSpecifications == {Undefined, "S1"}
FieldCookTypes == {Undefined, "K1"}
FieldNames == {Undefined, "brown rice"}
FieldDescriptions == {Undefined, "whole grain"}
FieldFlags == {None, Some(FALSE)}

\* The fields of an ingredient
NextIngredient ==
    \/ \E s \in {Undefined, "S1"}, c \in {Undefined, "K1"} :
          nextIngredient < MaxFieldIngredients
              /\ createIngredient("F1", s, c, "rice", "white", Some(<<Tier("100g", None)>>))
    \/ \E id \in IngredientIds, f \in FieldFoodTypes, s \in FieldSpecifications,
          c \in FieldCookTypes, n \in FieldNames, d \in FieldDescriptions,
          a \in FieldFlags :
          updateIngredient(id, f, s, c, n, d, a, None)
    \/ \E id \in IngredientIds : deleteIngredient(id)

SpecIngredient == Init /\ [][NextIngredient]_vars

\* the menu item ids a request may name: those generated so far and one that
\* names no menu item
MenuIds == {MenuItemNames[n] : n \in 1..nextMenuItem} \cup {NoMenuItem}

\* the photos of a request: omitted, empty, one, two, one of them null
BodyPhotos ==
    { None,
      Some(<< >>),
      Some(<<"a.jpg">>),
      Some(<<"b.jpg", "a.jpg">>),
      Some(<<"a.jpg", NULL>>) }

\* The photos and the status of the menu items
NextMenu ==
    \/ \E l \in {"L1", Undefined}, st \in {Undefined, "active", "retired"},
          p \in BodyPhotos :
          nextMenuItem < MaxMenuItems /\ createMenuItem(l, "wrap", Some(301), st, p, None)
    \/ \E id \in MenuIds, p \in BodyPhotos :
          updateMenuItem(id, Undefined, None, Undefined, p, None)
    \/ \E id \in MenuIds : toggleMenuStatus(id)
    \/ \E id \in MenuIds : deleteMenuItem(id)

SpecMenu == Init /\ [][NextMenu]_vars

Ing(i) == [ingredient_id |-> i]

\* the ingredients of a request: omitted, empty, one, the same one twice, one
\* that does not exist
BodyIngredients ==
    { None,
      Some(<< >>),
      Some(<<Ing("I1")>>),
      Some(<<Ing("I1"), Ing("I1")>>),
      Some(<<Ing(NoIngredient)>>) }

\* what an update carries besides the ingredients: nothing, or a new name
\* and a photo
FieldWrites ==
    { [name |-> Undefined, photos |-> None],
      [name |-> "salad", photos |-> Some(<<"b.jpg">>)] }

\* The composition of the menu items
NextComposition ==
    \/ nextIngredient < MaxMenuIngredients
          /\ createIngredient("F1", Undefined, Undefined, "rice", Undefined, None)
    \/ \E g \in BodyIngredients :
          nextMenuItem < MaxMenuItems
              /\ createMenuItem("L1", "wrap", None, Undefined, Some(<<"a.jpg">>), g)
    \/ \E id \in MenuIds, w \in FieldWrites, g \in BodyIngredients :
          updateMenuItem(id, w.name, None, Undefined, w.photos, g)

SpecComposition == Init /\ [][NextComposition]_vars

\* Deleting a location: ingredients, menu items and orders are created,
\* locations are deleted
NextCascade ==
    \/ nextIngredient < MaxMenuIngredients
          /\ createIngredient("F1", Undefined, Undefined, "rice", Undefined,
                              Some(<<Tier("100g", None)>>))
    \/ \E l \in LocationIds :
          nextMenuItem < MaxMenuItems
              /\ createMenuItem(l, "wrap", None, Undefined, Some(<<"a.jpg">>),
                                Some(<<Ing("I1")>>))
    \/ \E l \in LocationIds, c \in {Undefined, "C1", "C2"} :
          nextId < MaxCascadeOrders /\ createOrder(l, c, Undefined, Some(<<Plain>>))
    \/ \E l \in LocationIds \cup {Undefined} : deleteLocation(l)

SpecCascade == Init /\ [][NextCascade]_vars

\* Rows and their parents: ingredients, menu items and orders are created,
\* updated and deleted
NextParents ==
    \/ nextIngredient < MaxMenuIngredients
          /\ createIngredient("F1", Undefined, Undefined, "rice", Undefined,
                              Some(<<Tier("100g", None)>>))
    \/ \E id \in IngredientIds :
          updateIngredient(id, Undefined, Undefined, Undefined, Undefined, Undefined,
                           None, Some(<<Tier("250g", None)>>))
    \/ \E id \in IngredientIds : deleteIngredient(id)
    \/ \E g \in {Some(<<Ing("I1")>>), Some(<<Ing(NoIngredient)>>)} :
          nextMenuItem < MaxMenuItems
              /\ createMenuItem("L1", "wrap", None, Undefined, Some(<<"a.jpg">>), g)
    \/ \E id \in MenuIds :
          updateMenuItem(id, Undefined, None, Undefined, Some(<<"b.jpg">>),
                         Some(<<Ing("I1")>>))
    \/ \E id \in MenuIds : deleteMenuItem(id)
    \/ \E m \in {"M1", NoMenuItem} :
          nextId < MaxCascadeOrders
              /\ createOrder("L1", "C1", Undefined, Some(<<Item(m, Some(1), Some(200))>>))
    \/ \E id \in OrderIds : updateOrder(id, "C2", Undefined, Undefined)
    \/ \E id \in OrderIds : deleteOrder(id)

SpecParents == Init /\ [][NextParents]_vars

\* the tokens a client may hold: the ids generated so far, or none
Tokens == {UserNames[n] : n \in 1..nextUser} \cup {Undefined}
UserRequestIds == {UserNames[n] : n \in 1..nextUser}

LoginEmails == {"admin@thrive.lk", "staff@thrive.lk", "nobody@thrive.lk"}
Passwords == {"secret", "guess"}

\* Logging in: accounts change their role and their account_status, and
\* clients log in with known and unknown emails, right and wrong passwords
NextLogin ==
    \/ \E e \in LoginEmails, pw \in Passwords : loginUser(e, pw)
    \/ \E t \in Tokens, id \in UserRequestIds, r \in userRoles \cup {Undefined},
          a \in accountStatuses \cup {Undefined} : updateUser(t, id, r, a)

SpecLogin == Init /\ [][NextLogin]_vars

\* The gate: accounts are deactivated, activated again and deleted, users
\* log in, and clients present the tokens they hold
NextGate ==
    \/ \E t \in Tokens : getMe(t)
    \/ \E t \in Tokens, id \in UserRequestIds, a \in accountStatuses :
          updateUser(t, id, Undefined, a)
    \/ \E t \in Tokens, id \in UserRequestIds : deleteUser(t, id)
    \/ \E e \in LoginEmails : loginUser(e, "secret")

SpecGate == Init /\ [][NextGate]_vars

CategoryIds == {CategoryNames[n] : n \in 1..nextCategory} \cup {"G0"}

\* The categories: they are created with and without a display_order, and
\* their display_order is changed
NextCategories ==
    \/ \E n \in {"Meat", "Seafood", "Vegetables", Undefined},
          d \in {None, Some(0), Some(3), Some(-2)} : createCategory(n, d)
    \/ \E id \in CategoryIds, d \in {None, Some(7)} : updateCategory(id, d)

SpecCategories == Init /\ [][NextCategories]_vars

\* The display ids: menu items are created in both locations, renamed,
\* toggled and deleted
NextDisplay ==
    \/ \E l \in LocationIds :
          nextMenuItem < MaxMenuItems
              /\ createMenuItem(l, "wrap", Some(301), Undefined, None, None)
    \/ \E id \in MenuIds : updateMenuItem(id, "salad", None, "active", None, None)
    \/ \E id \in MenuIds : toggleMenuStatus(id)
    \/ \E id \in MenuIds : deleteMenuItem(id)

SpecDisplay == Init /\ [][NextDisplay]_vars

NewEmails == {"cook@thrive.lk", Undefined}

\* The staff: principals of every role create users, and roles change
NextUsers ==
    \/ \E t \in Tokens, l \in {Undefined, "L1"}, e \in NewEmails, r \in {Undefined, "admin"} :
          createUser(t, l, e, "secret", r, Undefined)
    \/ \E t \in Tokens, id \in UserRequestIds, r \in userRoles \ {"staff"} :
          updateUser(t, id, r, Undefined)

SpecUsers == Init /\ [][NextUsers]_vars

\* The life of an order: orders are created, given to customers, annotated
\* and progressed, by PATCH and by PUT
NextFrame ==
    \/ \E c \in {Undefined, "C1"} :
          nextId < MaxFrameOrders /\ createOrder("L1", c, Undefined, Some(<<Plain>>))
    \/ \E id \in OrderIds, s \in {"preparing", "delivered"} : updateOrderStatus(id, s)
    \/ \E id \in OrderIds, c \in {Undefined, "C2"}, n \in {Undefined, "note"},
          s \in {Undefined, "received", "delivered"} : updateOrder(id, c, n, s)

SpecFrame == Init /\ [][NextFrame]_vars

-----------------------------------------------------------------------------
(* Properties of the customers' counters *)

OrdersOf(c) == {o \in DOMAIN orders : orders[o].customer_id = c}

\* C1: each customer's total_preps equals the number of existing orders whose
\* customer_id is that customer, in every state reachable by createOrder,
\* updateOrder, updateOrderStatus, deleteOrder and deleteCustomer.
TotalPrepsCountsOrders ==
    \A c \in DOMAIN customers : customers[c].total_preps = Cardinality(OrdersOf(c))

\* C6: total_preps changes only when an order is created or deleted: a step
\* that creates an order referencing c raises c's counter by exactly 1, a step
\* that deletes an order referencing c lowers it by exactly 1, and every other
\* step (updateOrderStatus and updateOrder among them) leaves it as it was.
TotalPrepsSteps ==
    [][\A c \in DOMAIN customers \cap DOMAIN customers' :
          LET d == customers'[c].total_preps - customers[c].total_preps
              created == {o \in DOMAIN orders' \ DOMAIN orders : orders'[o].customer_id = c}
              deleted == {o \in DOMAIN orders \ DOMAIN orders' : orders[o].customer_id = c}
          IN /\ created # {} => d = 1
             /\ deleted # {} => d = -1
             /\ created = {} /\ deleted = {} => d = 0
             /\ (\E id \in OrderIds, s \in {"delivered", Undefined, "shipped"} :
                    updateOrderStatus(id, s))
                   => d = 0]_vars

\* an order of C1 was created and deleted again, and C1 still has one order
TotalPrepsStepsWitness ==
    /\ "C1" \in DOMAIN customers
    /\ customers["C1"].total_preps = 1
    /\ Cardinality(OrdersOf("C1")) = 1
    /\ nextId = 2
    /\ deletedIn # {}
    /\ \E o \in DOMAIN orders : orders[o].status = "delivered"

-----------------------------------------------------------------------------
(* Properties of the order number *)

\* the number in an order_number, "ORD-" taken off
Numeric(order_number) == parseInt(SubSeq(order_number, 5, Len(order_number)))

\* C2: no two existing orders of the same location have the same order_number,
\* in every state reachable by createOrder and deleteOrder calls made one
\* after the other.
OrderNumberUnique ==
    \A o1, o2 \in DOMAIN orders :
        o1 # o2 /\ orders[o1].location_id = orders[o2].location_id
            => orders[o1].order_number # orders[o2].order_number

\* C4: of two orders of the same location, the one created later has the
\* strictly greater numeric order_number.
OrderNumberMonotonic ==
    \A o1, o2 \in DOMAIN orders :
        o1 < o2 /\ orders[o1].location_id = orders[o2].location_id
            => Numeric(orders[o1].order_number) < Numeric(orders[o2].order_number)

\* n written with five digits
FiveDigits(n) ==
    <<Digit((n \div 10000) % 10), Digit((n \div 1000) % 10), Digit((n \div 100) % 10),
      Digit((n \div 10) % 10), Digit(n % 10)>>

\* the rank of order o among the orders of its location, in creation order
Rank(o) ==
    Cardinality({p \in DOMAIN orders :
                    p <= o /\ orders[p].location_id = orders[o].location_id})

\* C5: in a location where no order has been deleted, the Nth createOrder
\* assigns "ORD-" followed by N written with 5 digits; the first order of a
\* fresh location gets "ORD-00001".
OrderNumberIsRank ==
    \A o \in DOMAIN orders :
        orders[o].location_id \notin deletedIn
            => /\ orders[o].order_number = <<"O", "R", "D", "-">> \o FiveDigits(Rank(o))
               /\ Rank(o) = 1 => orders[o].order_number =
                                    <<"O", "R", "D", "-", "0", "0", "0", "0", "1">>

\* the third order of a location in which nothing was deleted
OrderNumberIsRankWitness ==
    \E o \in DOMAIN orders :
        /\ orders[o].location_id \notin deletedIn
        /\ Rank(o) = 3
        /\ orders[o].order_number = <<"O", "R", "D", "-", "0", "0", "0", "0", "3">>

-----------------------------------------------------------------------------
(* Properties of the requests' validation *)

\* C9: createOrder with no location_id, or with an empty or omitted items
\* array, answers 400 and leaves orders, order items and every customer's
\* total_preps unchanged.
EmptyOrderRejected ==
    [][\A l \in LocationIds \cup {Undefined}, c \in CustomerIds \cup {Undefined},
          items \in {None, Some(<< >>), Some(<<Plain>>)} :
          (l = Undefined \/ items = None \/ items = Some(<< >>))
          /\ createOrder(l, c, Undefined, items)
              => /\ response' = 400
                 /\ UNCHANGED <<orders, order_items, customers>>]_vars

\* a request was rejected while orders exist
EmptyOrderRejectedWitness ==
    /\ response = 400
    /\ DOMAIN orders # {}
    /\ \E c \in DOMAIN customers : customers[c].total_preps > 0

-----------------------------------------------------------------------------
(* Properties of the status *)

\* C10: updateOrderStatus(id, s) sets delivered_at to the current instant if
\* s is 'delivered' and leaves delivered_at as it was otherwise, so a
\* delivered_at once set survives every later change to another status.
DeliveredAtSetOnDelivered ==
    [][\A id \in DOMAIN orders, s \in validStatuses \cup {Undefined, "shipped"} :
          updateOrderStatus(id, s)
              => IF s = "delivered"
                 THEN orders'[id].delivered_at = Some(now)
                 ELSE orders'[id].delivered_at = orders[id].delivered_at]_vars

\* an order delivered at instant 0 and moved to another status later on
DeliveredAtSetOnDeliveredWitness ==
    \E o \in DOMAIN orders :
        /\ orders[o].delivered_at = Some(0)
        /\ orders[o].status = "preparing"
        /\ now > 0

\* C11: updateOrderStatus on an existing order answers 200 and overwrites the
\* status with any of received, preparing, ready, delivered, cancelled,
\* whatever the status was (delivered and cancelled included); a missing
\* status or one outside that set is answered 400 and no order changes.
StatusOverwritten ==
    [][\A id \in DOMAIN orders, s \in validStatuses \cup {Undefined, "shipped"} :
          updateOrderStatus(id, s)
              => IF s \in {"received", "preparing", "ready", "delivered", "cancelled"}
                 THEN response' = 200 /\ orders'[id].status = s
                 ELSE response' = 400 /\ orders' = orders]_vars

\* an order that was delivered and has been put back to 'received'
StatusOverwrittenWitness ==
    \E o \in DOMAIN orders :
        /\ orders[o].delivered_at # None
        /\ orders[o].status = "received"
        /\ response = 200

-----------------------------------------------------------------------------
(* Properties of the amounts *)

ItemsOf(o) == {it \in order_items : it.order_id = o}

\* the sum of the total_price of the persisted items of order o, in cents
PersistedSum(o) == SumOver(ItemsOf(o), [it \in ItemsOf(o) |-> it.total_price])

Indices(items) == 1..Len(items)

\* unit_price x quantity of a supplied item, in half cents, a missing
\* unit_price counted as 0 and a missing quantity as 1
SuppliedAmount(item) ==
    (IF item.unit_price = None THEN 0 ELSE item.unit_price[1])
        * (IF item.quantity = None THEN 1 ELSE item.quantity[1])

SuppliedSum(items) ==
    SumOver(Indices(items), [i \in Indices(items) |-> SuppliedAmount(items[i])])

\* C7, as stated: the order's total_price equals the sum over its supplied
\* items of unit_price x quantity (a missing unit_price counted as 0, a missing
\* quantity as 1) and equals the sum of the total_price of its persisted items.
TotalPriceIsSuppliedSum ==
    \A o \in DOMAIN orders :
        /\ 2 * orders[o].total_price = SuppliedSum(supplied[o])
        /\ orders[o].total_price = PersistedSum(o)

\* the same with a quantity of 0 counted as 1 too
CountedAmount(item) ==
    (IF item.unit_price = None THEN 0 ELSE item.unit_price[1])
        * (IF item.quantity \in {None, Some(0)} THEN 1 ELSE item.quantity[1])

CountedSum(items) ==
    SumOver(Indices(items), [i \in Indices(items) |-> CountedAmount(items[i])])

\* c cents is h half cents rounded to the cent: at most half a cent away
IsRounded(c, h) == Abs(2 * c - h) <= 1

WholeCents(items) ==
    \A i \in Indices(items) :
        items[i].unit_price = None \/ items[i].unit_price[1] % 2 = 0

\* C7, amended: the order's total_price is the sum over its supplied items of
\* unit_price x quantity, a missing unit_price counted as 0 and a missing or
\* zero quantity as 1, rounded to the cent; when every supplied unit_price is
\* a whole number of cents it is that sum exactly and equals the sum of the
\* total_price of its persisted items.
TotalPriceIsCountedSum ==
    \A o \in DOMAIN orders :
        /\ IsRounded(orders[o].total_price, CountedSum(supplied[o]))
        /\ WholeCents(supplied[o])
              => /\ 2 * orders[o].total_price = CountedSum(supplied[o])
                 /\ orders[o].total_price = PersistedSum(o)

\* an order of an item with quantity 0 at 1.00 and two of an item at 1.00:
\* 3.00 in all
TotalPriceIsCountedSumWitness ==
    \E o \in DOMAIN orders :
        /\ supplied[o] = <<Item("M1", Some(0), Some(200)), Item("M1", Some(2), Some(200))>>
        /\ orders[o].total_price = 300
        /\ PersistedSum(o) = 300

\* C12: every order item createOrder has persisted has quantity >= 1,
\* whatever quantity the request gave (missing, zero, positive or negative).
QuantityAtLeastOne == \A it \in order_items : it.quantity >= 1

-----------------------------------------------------------------------------
(* Properties of the ingredients *)

TiersOf(tbl, id) == {t \in tbl : t.ingredient_id = id}

\* the tiers of ingredient id in table tbl are the entries of array q, one
\* row for each position, with the entry's quantity_value and price
TiersAre(tbl, id, q) ==
    /\ Cardinality(TiersOf(tbl, id)) = Len(q)
    /\ \A i \in 1..Len(q) :
          \E t \in TiersOf(tbl, id) :
              /\ t.seq = i
              /\ t.quantity_value = q[i].quantity_value
              /\ IsRounded(t.price, Default(q[i].price, 0))

\* C13: when createIngredient is accepted, the new ingredient has as many
\* persisted tiers as the request supplied and no two of them have the same
\* quantity_value.
TiersAsSupplied ==
    [][\A f \in {"F1", NoFoodType}, q \in BodyQuantities :
          createIngredient(f, Undefined, Undefined, "rice", Undefined, q)
              /\ response' = 201
              => LET new == TiersOf(ingredient_quantities',
                                    IngredientNames[nextIngredient'])
                 IN /\ Cardinality(new) = Len(Default(q, << >>))
                    /\ \A t1, t2 \in new :
                          t1 # t2 => t1.quantity_value # t2.quantity_value]_vars

\* an ingredient created with the two tiers 100g and 250g
TiersAsSuppliedWitness ==
    /\ response = 201
    /\ \E id \in DOMAIN ingredients :
          {t.quantity_value : t \in TiersOf(ingredient_quantities, id)} = {"100g", "250g"}

\* C14: after a successful updateIngredient that carries a quantities array
\* (the empty one included) the ingredient's tiers are exactly the entries of
\* that array, none of the old ones is left; when quantities is omitted the
\* tiers are those of before.
TiersReplaced ==
    [][\A id \in DOMAIN ingredients, q \in BodyQuantities :
          updateIngredient(id, Undefined, Undefined, Undefined, "brown rice", Undefined,
                           None, q)
              /\ response' = 200
              => IF q = None
                 THEN TiersOf(ingredient_quantities', id) = TiersOf(ingredient_quantities, id)
                 ELSE TiersAre(ingredient_quantities', id, q[1])]_vars

\* an ingredient that was updated and now has the single tier 250g while
\* another ingredient keeps two tiers
TiersReplacedWitness ==
    /\ response = 200
    /\ \E id, other \in DOMAIN ingredients :
          /\ ingredients[id].name = "brown rice"
          /\ {t.quantity_value : t \in TiersOf(ingredient_quantities, id)} = {"250g"}
          /\ Cardinality(TiersOf(ingredient_quantities, other)) = 2

\* C15: updateIngredient changes only the fields the request supplies: each of
\* food_type_id, specification_id, cook_type_id, name, description and
\* is_active that is absent from the input keeps its value.
AbsentFieldsKept ==
    [][\A id \in DOMAIN ingredients, f \in FieldFoodTypes, s \in FieldSpecifications,
          c \in FieldCookTypes, n \in FieldNames, d \in FieldDescriptions,
          a \in FieldFlags :
          updateIngredient(id, f, s, c, n, d, a, None) /\ response' = 200
              => /\ f = Undefined => ingredients'[id].food_type_id = ingredients[id].food_type_id
                 /\ s = Undefined => ingredients'[id].specification_id = ingredients[id].specification_id
                 /\ c = Undefined => ingredients'[id].cook_type_id = ingredients[id].cook_type_id
                 /\ n = Undefined => ingredients'[id].name = ingredients[id].name
                 /\ d = Undefined => ingredients'[id].description = ingredients[id].description
                 /\ a = None => ingredients'[id].is_active = ingredients[id].is_active]_vars

-----------------------------------------------------------------------------
(* Properties of the menu items *)

\* C18: toggleMenuStatus turns draft into active and active into draft, so a
\* second toggle right after the first gives the item its original status
\* back.
ToggleFlips ==
    [][\A id \in DOMAIN menu_items :
          toggleMenuStatus(id)
              => /\ menu_items[id].status = "draft" => menu_items'[id].status = "active"
                 /\ menu_items[id].status = "active" => menu_items'[id].status = "draft"
                 /\ toggled(menu_items'[id].status) = menu_items[id].status]_vars

\* the menu item registered as active has been toggled to draft
ToggleFlipsWitness ==
    /\ response = 200
    /\ "M1" \in DOMAIN menu_items
    /\ menu_items["M1"].status = "draft"

PhotosOf(tbl, id) == {ph \in tbl : ph.menu_item_id = id}

\* the photos of menu item id in table tbl are the entries of array P, the
\* photo of P[i] with display_order i, i counted from 0
PhotosAre(tbl, id, P) ==
    /\ Cardinality(PhotosOf(tbl, id)) = Len(P)
    /\ \A i \in 0..(Len(P) - 1) :
          \E ph \in PhotosOf(tbl, id) :
              ph.display_order = i /\ ph.photo_url = P[i + 1]

\* C19: after a successful createMenuItem or updateMenuItem that supplies a
\* photos array P the item's photos are exactly the entries of P, the photo of
\* P[i] with display_order i (from 0); an updateMenuItem without photos
\* leaves the item's photos as they were.
PhotosAsSupplied ==
    [][/\ \A l \in {"L1", Undefined}, st \in {Undefined, "active", "retired"},
             p \in BodyPhotos :
             createMenuItem(l, "wrap", Some(301), st, p, None) /\ response' = 201
                 => PhotosAre(menu_item_photos', MenuItemNames[nextMenuItem'],
                              Default(p, << >>))
       /\ \A id \in DOMAIN menu_items, p \in BodyPhotos :
             updateMenuItem(id, Undefined, None, Undefined, p, None)
                 /\ response' = 200
                 => IF p = None
                    THEN PhotosOf(menu_item_photos', id) = PhotosOf(menu_item_photos, id)
                    ELSE PhotosAre(menu_item_photos', id, p[1])]_vars

\* a menu item created with one photo whose photos an update has replaced by
\* b.jpg at 0 and a.jpg at 1
PhotosAsSuppliedWitness ==
    /\ response = 200
    /\ "M2" \in DOMAIN menu_items
    /\ PhotosOf(menu_item_photos, "M2") =
           { [menu_item_id |-> "M2", photo_url |-> "b.jpg", display_order |-> 0],
             [menu_item_id |-> "M2", photo_url |-> "a.jpg", display_order |-> 1] }
    /\ PhotosOf(menu_item_photos, "M1") # {}

HasDuplicate(g) ==
    g # None /\ \E i, j \in 1..Len(g[1]) :
                    i # j /\ g[1][i].ingredient_id = g[1][j].ingredient_id

\* C20: a createMenuItem or updateMenuItem whose ingredients array names an
\* ingredient twice is rejected, and the rejected update leaves the item's
\* fields, photos and composition as they were; no menu item ever has two
\* composition rows for the same ingredient.
DuplicateIngredientRejected ==
    /\ [][/\ \A g \in BodyIngredients :
                HasDuplicate(g)
                    /\ createMenuItem("L1", "wrap", None, Undefined, Some(<<"a.jpg">>), g)
                    => response' \notin {200, 201} /\ UNCHANGED menuState
          /\ \A id \in DOMAIN menu_items, w \in FieldWrites, g \in BodyIngredients :
                HasDuplicate(g) /\ updateMenuItem(id, w.name, None, Undefined, w.photos, g)
                    => response' \notin {200, 201} /\ UNCHANGED menuState]_vars
    /\ [](\A c1, c2 \in menu_item_ingredients :
             c1 # c2 /\ c1.menu_item_id = c2.menu_item_id
                 => c1.ingredient_id # c2.ingredient_id)

\* an update naming the ingredient twice was refused for an item that has a
\* photo and a composition row
DuplicateIngredientRejectedWitness ==
    /\ response = 409
    /\ \E m \in DOMAIN menu_items :
          /\ PhotosOf(menu_item_photos, m) # {}
          /\ \E c \in menu_item_ingredients : c.menu_item_id = m

-----------------------------------------------------------------------------
(* Properties of the cascades *)

\* C16: after a successful deleteLocation(L) no menu item, customer, user or
\* order with location_id = L exists, no photo or composition row of a menu
\* item of L and no order item of an order of L remains, and none can come
\* back: every row's location_id names an existing location.
LocationDeletedWithItsRows ==
    /\ [][\A L \in LocationIds :
             deleteLocation(L) /\ response' = 200
                 => /\ locatedIn(menu_items', L) = {}
                    /\ locatedIn(customers', L) = {}
                    /\ locatedIn(users', L) = {}
                    /\ locatedIn(orders', L) = {}
                    /\ \A m \in DOMAIN menu_items :
                          menu_items[m].location_id = L
                              => /\ PhotosOf(menu_item_photos', m) = {}
                                 /\ \A c \in menu_item_ingredients' : c.menu_item_id # m
                    /\ \A o \in DOMAIN orders :
                          orders[o].location_id = L
                              => \A it \in order_items' : it.order_id # o]_vars
    /\ [](/\ \A m \in DOMAIN menu_items : menu_items[m].location_id \in locations
          /\ \A c \in DOMAIN customers : customers[c].location_id \in locations
          /\ \A u \in DOMAIN users : users[u].location_id \in locations
          /\ \A o \in DOMAIN orders : orders[o].location_id \in locations)

\* location L1 was deleted with the order placed there, a menu item with a
\* photo and a composition row is left at L2
LocationDeletedWithItsRowsWitness ==
    /\ response = 200
    /\ "L1" \notin locations
    /\ "L1" \in deletedIn
    /\ \E m \in DOMAIN menu_items :
          /\ PhotosOf(menu_item_photos, m) # {}
          /\ \E c \in menu_item_ingredients : c.menu_item_id = m

\* C17: in every state reached by create, update and delete operations on
\* ingredients, menu items and orders, every quantity tier,
\* menu item photo, composition row and order item references a parent row
\* that exists.
ParentsExist ==
    /\ \A t \in ingredient_quantities : t.ingredient_id \in DOMAIN ingredients
    /\ \A ph \in menu_item_photos : ph.menu_item_id \in DOMAIN menu_items
    /\ \A c \in menu_item_ingredients :
          c.menu_item_id \in DOMAIN menu_items /\ c.ingredient_id \in DOMAIN ingredients
    /\ \A it \in order_items : it.order_id \in DOMAIN orders

\* an order whose item has lost its menu item, after an ingredient with a
\* tier and a composition row was deleted
ParentsExistWitness ==
    /\ nextIngredient > 0
    /\ DOMAIN ingredients = {}
    /\ \E it \in order_items : it.menu_item_id = NULL
    /\ menu_item_photos # {}

-----------------------------------------------------------------------------
(* Properties of the transaction *)

\* C3: two createOrder transactions of one location that overlap both read
\* the same count and both commit: COMMIT always stores the order, under the
\* number made from the count its transaction read, whatever was committed
\* since; two orders with the same order_number are the result.
OverlapCommitsBoth ==
    [][\A r \in Requests :
          txCommit(r)
              => /\ tx[r].id \in DOMAIN orders'
                 /\ orders'[tx[r].id].order_number = OrderNumber(tx[r].count)
                 /\ orders'[tx[r].id].location_id = tx[r].location_id
                 /\ \A o \in DOMAIN orders : o \in DOMAIN orders' /\ orders'[o] = orders[o]]_vars

\* two orders of one location with the same number and no order ever deleted
OverlapCommitsBothWitness ==
    /\ deletedIn = {}
    /\ \E o1, o2 \in DOMAIN orders :
          /\ o1 # o2
          /\ orders[o1].location_id = orders[o2].location_id
          /\ orders[o1].order_number = orders[o2].order_number

\* C8: createOrder is atomic. What other requests can see is never an order
\* with part of its items or items without their order: every order has the
\* item rows of the whole array it was created from, every item row belongs to
\* an order, and every customer's total_preps counts its orders, so that a
\* rolled-back createOrder leaves no order, no item and no change of a counter.
CreateOrderAtomic ==
    /\ \A o \in DOMAIN orders : {it.idx : it \in ItemsOf(o)} = Indices(supplied[o])
    /\ \A it \in order_items : it.order_id \in DOMAIN orders
    /\ \A c \in DOMAIN customers :
          customers[c].total_preps = Cardinality({o \in DOMAIN orders : orders[o].customer_id = c})

\* a transaction of customer C1 inserted its order and was rolled back, while
\* another order of C1 is committed
CreateOrderAtomicWitness ==
    /\ deletedIn = {}
    /\ response = 400
    /\ \E id \in 1..nextId :
          /\ id \notin DOMAIN orders
          /\ \A r \in Requests : tx[r].id # id
    /\ customers["C1"].total_preps = 1

-----------------------------------------------------------------------------
(* Properties of the login *)

\* nobody registered with this email has this password
WrongPassword(e, pw) == \A u \in byEmail(e) : ~compare(pw, users[u].password_hash)

\* C21: a login with a registered email and a wrong password is answered as a
\* login with an unregistered email is, 401 Invalid credentials, whatever the
\* account_status and the role of the registered account
LoginHidesEmail ==
    [][\A e \in LoginEmails, pw \in Passwords :
           loginUser(e, pw) /\ WrongPassword(e, pw)
               => response' = 401 /\ body' = Body("Invalid credentials", NULL)]_vars

\* the accounts with this email have this password and are not active
RightPasswordNotActive(e, pw) ==
    /\ byEmail(e) # {}
    /\ \A u \in byEmail(e) : /\ compare(pw, users[u].password_hash)
                             /\ users[u].account_status # "active"

\* C22: a login with the right password of an account that is not active is
\* answered 401 Account is not active, carries no token and leaves the
\* users table as it is, whatever the role of the account
InactiveLoginRefused ==
    [][\A e \in LoginEmails, pw \in Passwords :
           loginUser(e, pw) /\ RightPasswordNotActive(e, pw)
               => /\ response' = 401
                  /\ body' = Body("Account is not active", NULL)
                  /\ users' = users]_vars

-----------------------------------------------------------------------------
(* Properties of the identity gate *)

\* the token is the id of a user whose account is active now
ActiveToken(t) == \E u \in DOMAIN users : u = t /\ users[u].account_status = "active"

\* a request with token t goes through the gate
Gated(t) ==
    \/ getMe(t)
    \/ \E id \in UserRequestIds, a \in accountStatuses : updateUser(t, id, Undefined, a)
    \/ \E id \in UserRequestIds : deleteUser(t, id)

\* C23: a request behind the gate is answered 401, and changes no user, if
\* and only if its token is not the id of a user whose account_status is
\* active at that moment; so the token of a deactivated or deleted user is
\* refused until the account is active again
GateAdmitsActiveOnly ==
    [][\A t \in Tokens :
           Gated(t) => IF ActiveToken(t) THEN response' # 401
                       ELSE response' = 401 /\ users' = users]_vars

\* a token was refused while its account was deactivated
GateAdmitsActiveOnlyWitness ==
    /\ response = 401
    /\ body = Body("User not found or inactive", NULL)
    /\ DOMAIN users # {}
    /\ \A u \in DOMAIN users : users[u].account_status # "active"

-----------------------------------------------------------------------------
(* Properties of the food categories *)

DisplayOrders(tbl) == {tbl[c].display_order : c \in DOMAIN tbl}

-----------------------------------------------------------------------------
(* Properties of the display ids *)

\* the number after the '#'
DisplayNumber(display_id) == parseInt(SubSeq(display_id, 2, Len(display_id)))

\* a menu item has the display_id it was created with
DisplayIdKept ==
    \A m \in DOMAIN menu_items : menu_items[m].display_id = displayGiven[m][2]

\* C25: within one location the display_id is assigned at creation only and
\* grows strictly with the order of creation, so no value is ever given to
\* two menu items, whatever was updated, toggled or deleted in between
DisplayIdMonotonic ==
    /\ DisplayIdKept
    /\ \A i, j \in 1..nextMenuItem :
           LET a == displayGiven[MenuItemNames[i]]
               b == displayGiven[MenuItemNames[j]]
           IN i < j /\ a[1] = b[1] => DisplayNumber(a[2]) < DisplayNumber(b[2])

-----------------------------------------------------------------------------
(* Properties of the staff *)

\* the principal of the token is an admin
AdminToken(t) == t \in DOMAIN users /\ users[t].role = "admin"

\* C26: createUser creates a user only for a principal whose role is admin;
\* for a manager, staff or kitchen_staff principal it is refused and the
\* users table stays as it is
OnlyAdminCreatesUser ==
    [][\A t \in Tokens, l \in {Undefined, "L1"}, e \in NewEmails, r \in {Undefined, "admin"} :
           createUser(t, l, e, "secret", r, Undefined) /\ ~AdminToken(t)
               => response' # 201 /\ users' = users]_vars

-----------------------------------------------------------------------------
(* Properties of an order's life *)

\* C27: once an order is created, updateOrder and updateOrderStatus leave its
\* order_number, total_price, location_id and its order items as they are,
\* whatever they do to customer_id, notes, status and delivered_at
OrderFrameKept ==
    [][\A o \in DOMAIN orders :
           /\ o \in DOMAIN orders'
           /\ orders'[o].order_number = orders[o].order_number
           /\ orders'[o].total_price = orders[o].total_price
           /\ orders'[o].location_id = orders[o].location_id
           /\ {it \in order_items' : it.order_id = o} = ItemsOf(o)]_vars

\* an order created in L1, then given to C2, annotated and
\* delivered
OrderFrameKeptWitness ==
    \E o \in DOMAIN orders :
        /\ orders[o].customer_id = "C2"
        /\ orders[o].notes = "note"
        /\ orders[o].status = "delivered"
        /\ orders[o].location_id = "L1"
        /\ ItemsOf(o) # {}

\* C28: an order whose status is 'delivered' has a delivered_at, whether the
\* status was set by PATCH /status or by PUT
DeliveredHasDeliveredAt ==
    \A o \in DOMAIN orders : orders[o].status = "delivered" => orders[o].delivered_at # None

\* the requests whose transaction replaced the tiers of ingredient id and
\* committed
Replaced(id) ==
    {r \in Updaters : itx[r].pc = "committed" /\ itx[r].id = id /\ itx[r].replaces}

\* C29: when two updateIngredient requests for the same ingredient, each with a
\* quantities array, both commit, the tiers of the ingredient are exactly the
\* array of one of them, never a mixture of the two.
OneUpdateWins ==
    \A id \in DOMAIN ingredients :
        Cardinality(Replaced(id)) >= 2 =>
            \E r \in Replaced(id) :
                TiersOf(ingredient_quantities, id) = TierRows(id, itx[r].quantities)

\* the same holds where the UPDATE of the ingredients row always runs first
OneUpdateWinsPg == impl = "pg" => OneUpdateWins

OneUpdateWinsPgWitness ==
    /\ impl = "pg"
    /\ \E id \in DOMAIN ingredients :
          /\ Cardinality(Replaced(id)) >= 2
          /\ \E r1, r2 \in Replaced(id) : itx[r1].quantities # itx[r2].quantities

-----------------------------------------------------------------------------
(* Properties of the answer of createOrder *)

\* GET /api/orders/:id on the committed tables: the order with its items, or
\* nothing (404)
getOrder(tbl, items, id) ==
    IF id \notin DOMAIN tbl THEN None
    ELSE Some([order |-> tbl[id], items |-> {it \in items : it.order_id = id}])

\* C30: once createOrder has sent its 201, the order and all its items are
\* committed: a getOrder issued after the answer sees the order with its
\* complete set of items (no order of the location having been deleted).
AnsweredIsCommitted ==
    [][\A r \in Requests :
          txRespond(r) /\ tx[r].location_id \notin deletedIn' =>
              getOrder(orders', order_items', tx[r].id)
                  = Some([order |-> txRow(r), items |-> ItemRows(tx[r].id, tx[r].items)])]_vars

\* the same where the answer is sent after COMMIT
AnsweredIsCommittedPg ==
    [][\A r \in Requests :
          impl = "pg" /\ txRespond(r) /\ tx[r].location_id \notin deletedIn' =>
              getOrder(orders', order_items', tx[r].id)
                  = Some([order |-> txRow(r), items |-> ItemRows(tx[r].id, tx[r].items)])]_vars

====
